---- MODULE Spec2Model ----
(***************************************************************************)
(* BESS sizing calculator: the sizing and degradation projection engine    *)
(* (Algorithm.py), the Streamlit page that drives it (ui.py) and the       *)
(* augmentation table of the PyQt calculator page (Calculator.py).         *)
(*                                                                         *)
(* Number representation.  Python floats are modelled as exact decimals:   *)
(*   - fractions with 4 decimals (degradation factors, SOH, calendar       *)
(*     constants) are integers in units of 1e-4;                           *)
(*   - capacities rounded to 2 decimals are integers in units of 1e-2;     *)
(*   - unrounded products are non-negative big integers, little-endian     *)
(*     sequences of base-10000 limbs, with the decimal scale stated where  *)
(*     they are built.                                                     *)
(* round(x, n) is rounding to the nearest multiple.  Where the exact       *)
(* decimal lies halfway, the float the code rounds lies a little above or  *)
(* below it: a call rounds its exact ties down (tie = 0) or up (tie = 1).   *)
(* Python's None is the empty sequence and a present value v is <<v>>.     *)
(* Strings that the code strips, upper-cases or parses are sequences of    *)
(* one-character strings.                                                  *)
(***************************************************************************)
EXTENDS Integers, Sequences, FiniteSets, TLC

VARIABLES
    bess_xlsx,             \* the sheet of BESS.xlsx
    degradation_xlsx,      \* the table of Degradation.xlsx
    call,                  \* the engine call in progress, with its result
    data,                  \* st.session_state.data
    show_pcs_section,      \* st.session_state.show_pcs_section
    show_results_section,  \* st.session_state.show_results_section
    page,                  \* what the last run of the Streamlit script left
    tbl_aug,               \* the Qty texts of the calculator's augmentation table
    calculator             \* state["calculator"] of the calculator page

vars == <<bess_xlsx, degradation_xlsx, call, data, show_pcs_section, show_results_section,
          page, tbl_aug, calculator>>

ref_vars == <<bess_xlsx, degradation_xlsx>>

ui_vars == <<data, show_pcs_section, show_results_section, page>>

calc_vars == <<tbl_aug, calculator>>

\* ---------------------------------------------------------------- options
None == <<>>

Some(v) == <<v>>

IsNone(o) == o = <<>>

Val(o) == o[1]

\* ---------------------------------------------------------------- strings
LowerChars == <<"a","b","c","d","e","f","g","h","i","j","k","l","m","n","o","p","q","r","s","t","u","v","w","x","y","z">>

UpperChars == <<"A","B","C","D","E","F","G","H","I","J","K","L","M","N","O","P","Q","R","S","T","U","V","W","X","Y","Z">>

\* str.upper() on one character
UpperChar(c) ==
    IF \E i \in 1..26 : LowerChars[i] = c
    THEN UpperChars[CHOOSE i \in 1..26 : LowerChars[i] = c]
    ELSE c

\* str.lower() on one character
LowerChar(c) ==
    IF \E i \in 1..26 : UpperChars[i] = c
    THEN LowerChars[CHOOSE i \in 1..26 : UpperChars[i] = c]
    ELSE c

\* str.upper()
Upper(s) == [i \in 1..Len(s) |-> UpperChar(s[i])]

\* str.lower()
Lower(s) == [i \in 1..Len(s) |-> LowerChar(s[i])]

RECURSIVE LStrip(_)
\* str.lstrip() for the blank character
LStrip(s) == IF s # <<>> /\ Head(s) = " " THEN LStrip(Tail(s)) ELSE s

RECURSIVE RStrip(_)
\* str.rstrip() for the blank character
RStrip(s) == IF s # <<>> /\ s[Len(s)] = " " THEN RStrip(SubSeq(s, 1, Len(s) - 1)) ELSE s

\* str.strip()
Strip(s) == RStrip(LStrip(s))

\* (x or '') for an optional string
OrEmpty(o) == IF IsNone(o) THEN <<>> ELSE Val(o)

\* the idiom (product or '').strip().upper()
StripUpper(o) == Upper(Strip(OrEmpty(o)))

\* sub in s
Contains(sub, s) == \E i \in 1..(Len(s) - Len(sub) + 1) : SubSeq(s, i, i + Len(sub) - 1) = sub

RECURSIVE DigitsOf(_)
\* the decimal digits of n >= 0
DigitsOf(n) ==
    IF n < 10 THEN <<<<"0","1","2","3","4","5","6","7","8","9">>[n + 1]>>
    ELSE DigitsOf(n \div 10) \o DigitsOf(n % 10)

\* str(n) of an integer
str_of(n) == IF n < 0 THEN <<"-">> \o DigitsOf(0 - n) ELSE DigitsOf(n)

\* ----------------------------------------------------------- big integers
RECURSIVE MulC(_, _, _)
\* limbs of b * m + c, for 0 <= m, c small enough that a limb product fits
MulC(b, m, c) ==
    IF b = <<>>
    THEN IF c = 0 THEN <<>> ELSE <<c % 10000>> \o MulC(<<>>, m, c \div 10000)
    ELSE LET t == Head(b) * m + c
         IN  <<t % 10000>> \o MulC(Tail(b), m, t \div 10000)

RECURSIVE BigTrim(_)
\* drop the zero limbs at the high end
BigTrim(b) == IF b # <<>> /\ b[Len(b)] = 0 THEN BigTrim(SubSeq(b, 1, Len(b) - 1)) ELSE b

\* the big integer of a non-negative integer
Big(x) == MulC(<<>>, 0, x)

\* b * m
BigMul(b, m) == BigTrim(MulC(b, m, 0))

RECURSIVE Scale10(_, _)
\* b * 10^p
Scale10(b, p) == IF p = 0 THEN b ELSE Scale10(BigMul(b, 10), p - 1)

RECURSIVE BigToInt(_)
\* the integer of a big integer that fits
BigToInt(b) == IF b = <<>> THEN 0 ELSE Head(b) + 10000 * BigToInt(Tail(b))

\* limb i of b, 0 beyond its length
Limb(b, i) == IF i <= Len(b) THEN b[i] ELSE 0

\* a <= b for trimmed big integers
BigLeq(a, b) ==
    \/ Len(a) < Len(b)
    \/ /\ Len(a) = Len(b)
       /\ \/ a = b
          \/ \E i \in 1..Len(a) :
                /\ a[i] < b[i]
                /\ \A j \in (i + 1)..Len(a) : a[j] = b[j]

\* round(b / 10000^k) to an integer
RoundLimbs(b, k, tie) ==
    LET q   == BigToInt(SubSeq(b, k + 1, Len(b)))
        top == Limb(b, k)
        low == \E i \in 1..(k - 1) : Limb(b, i) # 0
    IN  IF top > 5000 \/ (top = 5000 /\ low) THEN q + 1
        ELSE IF top = 5000 THEN q + tie
        ELSE q

\* ------------------------------------------------------------- constants
\* range(21): years 0..20 of every yearly series
NumYears == 21

\* calendar degradation of EDGE, 0.9565
CalendarEdge == 9565

\* calendar degradation of GRID5015, 0.9808
CalendarGrid == 9808

\* calendar degradation of any other product, 1.0
CalendarFallback == 10000

EDGE == <<"E","D","G","E">>

GRID5015 == <<"G","R","I","D","5","0","1","5">>

\* the calendar constant with the product ignored
calendar_degradation_mut(product) == CalendarFallback

\* the product's calendar degradation constant, in 1e-4
calendar_degradation(product) ==
    LET p == StripUpper(product)
    IN  IF p = EDGE THEN CalendarEdge
        ELSE IF p = GRID5015 THEN CalendarGrid
        ELSE CalendarFallback

\* --------------------------------------------------- compute_soh_percent
\* max(0.0, min(1.0, soh)) on a value in 1e-8
Clamp01Mut(x) == x

Clamp01(x) == IF x < 0 THEN 0 ELSE IF x > 100000000 THEN 100000000 ELSE x

\* round(soh, 4) of a non-negative value in 1e-8, giving 1e-4
Round4(x, tie) ==
    LET q == x \div 10000
        r == x % 10000
    IN  IF r > 5000 THEN q + 1
        ELSE IF r = 5000 THEN q + tie
        ELSE q

\* one entry of the SOH list
SohEntry(deg_val, cal, tie) ==
    IF IsNone(deg_val) THEN None
    ELSE Some(Round4(Clamp01(Val(deg_val) * cal), tie))

\* degradation_curve is the sequence deg_0..deg_20 (index r + 1 is deg_r)
compute_soh_percent(degradation_curve, product, tie) ==
    [i \in 1..NumYears |-> SohEntry(degradation_curve[i], calendar_degradation(product), tie)]

\* ------------------------------------------------------------ BESS.xlsx
\* A sheet is [columns |-> the header row, rows |-> the data rows]; a row is
\* a sequence of cells, its first cell the label.  A cell is None (NaN),
\* Num(n) for a number or Txt(s) for a text; labels are texts held as whole
\* strings, already free of surrounding blanks.
Num(n) == [kind |-> "num", n |-> n, s |-> <<>>]

Txt(s) == [kind |-> "txt", n |-> 0, s |-> s]

\* _norm: drop blanks, upper-case
RECURSIVE DropBlanks(_)
DropBlanks(s) ==
    IF s = <<>> THEN <<>>
    ELSE IF Head(s) = " " THEN DropBlanks(Tail(s))
    ELSE <<Head(s)>> \o DropBlanks(Tail(s))

_norm(o) == Upper(DropBlanks(OrEmpty(o)))

M760 == <<"7","6","0","k","W","h">>

M676 == <<"6","7","6","k","W","h">>

M591 == <<"5","9","1","k","W","h">>

M507 == <<"5","0","7","k","W","h">>

M422 == <<"4","2","2","k","W","h">>

M338 == <<"3","3","8","k","W","h">>

H760 == <<"E","S","D","1","2","6","7","-","0","5","P","7","6","0","-","G">>

H676 == <<"E","S","D","1","1","2","6","-","0","5","P","6","7","6","-","G">>

H591 == <<"E","S","D","9","8","5","-","0","5","P","5","9","1","-","G">>

H507 == <<"E","S","D","8","4","4","-","0","5","P","5","0","7","-","G">>

H422 == <<"E","S","D","7","0","4","-","0","5","P","4","2","2","-","G">>

H338 == <<"E","S","D","5","6","3","-","0","5","P","3","3","8","-","G">>

GRID5015_HEADER == <<"E","S","D","1","3","3","1","-","0","5","P","5","0","1","5">>

\* a lookup that ignores the case of the model
EDGE_MODEL_TO_HEADER_mut(m) ==
    IF Upper(m) = Upper(M760) THEN Some(H760)
    ELSE IF Upper(m) = Upper(M507) THEN Some(H507)
    ELSE None

\* EDGE_MODEL_TO_HEADER.get(m): None when m is no key
EDGE_MODEL_TO_HEADER(m) ==
    IF m = M760 THEN Some(H760)
    ELSE IF m = M676 THEN Some(H676)
    ELSE IF m = M591 THEN Some(H591)
    ELSE IF m = M507 THEN Some(H507)
    ELSE IF m = M422 THEN Some(H422)
    ELSE IF m = M338 THEN Some(H338)
    ELSE None

Raised(e) == [ok |-> FALSE, err |-> e, specs |-> <<>>]

\* the dict of the target column: label -> cell, a later row overwriting an
\* earlier one with the same label, rows without a label dropped
SpecsOfColumn(sheet, col_idx) ==
    LET labelled == {i \in 1..Len(sheet.rows) :
                        ~IsNone(sheet.rows[i][1]) /\ Val(sheet.rows[i][1]) # ""}
        keys     == {Val(sheet.rows[i][1]) : i \in labelled}
        last(k)  == CHOOSE i \in labelled :
                        /\ Val(sheet.rows[i][1]) = k
                        /\ \A j \in labelled : Val(sheet.rows[j][1]) = k => j <= i
    IN  [k \in keys |-> sheet.rows[last(k)][col_idx]]

get_bess_specs_for(product, model, sheet) ==
    LET column(hits) ==
            IF hits = {} THEN Raised("KeyError")
            ELSE [ok |-> TRUE, err |-> "",
                  specs |-> SpecsOfColumn(sheet, CHOOSE i \in hits : \A j \in hits : i <= j)]
        lookup(prodN, target) ==
            IF Len(sheet.columns) < 2 THEN Raised("ValueError")
            ELSE IF prodN # EDGE /\ prodN # GRID5015 THEN Raised("ValueError")
            ELSE IF IsNone(target) THEN Raised("ValueError")
            ELSE column({i \in 1..Len(sheet.columns) :
                            _norm(Some(sheet.columns[i])) = _norm(target)})
        target_of(prodN) ==
            lookup(prodN, IF prodN = EDGE THEN EDGE_MODEL_TO_HEADER(Strip(OrEmpty(model)))
                          ELSE Some(GRID5015_HEADER))
    IN  target_of(_norm(product))

\* the accepted spellings of the rated energy label, in the order tried
EnergyKeys == <<"100% DOD Energy (kWh)", "100%DOD Energy (kWh)", "100% DOD Energy", "Energy (kWh)">>

IsDigit(c) == c \in {"0","1","2","3","4","5","6","7","8","9"}

DigitVal(c) == CHOOSE d \in 0..9 : <<"0","1","2","3","4","5","6","7","8","9">>[d + 1] = c

RECURSIVE DropCommas(_)
DropCommas(s) ==
    IF s = <<>> THEN <<>>
    ELSE IF Head(s) = "," THEN DropCommas(Tail(s))
    ELSE <<Head(s)>> \o DropCommas(Tail(s))

RECURSIVE DigitsValue(_)
\* the number written by a sequence of digits
DigitsValue(s) == IF s = <<>> THEN 0 ELSE 10 * DigitsValue(SubSeq(s, 1, Len(s) - 1)) + DigitVal(s[Len(s)])

\* float(str(v).replace(',', '').strip()) for a cell: None when it raises.
\* Texts are whole numbers with an optional sign, or do not parse.
CellFloat(cell) ==
    IF IsNone(cell) THEN None
    ELSE IF Val(cell).kind = "num" THEN Some(Val(cell).n)
    ELSE LET t == Strip(DropCommas(Val(cell).s))
             body == IF t # <<>> /\ Head(t) \in {"-", "+"} THEN Tail(t) ELSE t
         IN  IF body = <<>> \/ \E i \in 1..Len(body) : ~IsDigit(body[i]) THEN None
             ELSE IF Head(t) = "-" THEN Some(0 - DigitsValue(body))
             ELSE Some(DigitsValue(body))

RECURSIVE FirstEnergy(_, _)
\* the loop over the accepted spellings: the first one that is a key of
\* specs and whose value parses
FirstEnergy(specs, i) ==
    IF i > Len(EnergyKeys) THEN None
    ELSE IF EnergyKeys[i] \in DOMAIN specs /\ ~IsNone(CellFloat(specs[EnergyKeys[i]]))
         THEN CellFloat(specs[EnergyKeys[i]])
         ELSE FirstEnergy(specs, i + 1)

\* energy_kwh of the yearly functions: None when the lookup raises, the key
\* is absent or the value is not positive
energy_kwh(product, model, sheet) ==
    LET first(r)    == IF r.ok THEN FirstEnergy(r.specs, 1) ELSE None
        positive(e) == IF IsNone(e) \/ Val(e) <= 0 THEN None ELSE e
    IN  positive(first(get_bess_specs_for(product, model, sheet)))

\* ------------------------------------------------------- yearly series
\* dod is in 1e-2, a discharge rate in 1e-3, an efficiency in 1e-3, the AC
\* conversion and an SOH in 1e-4, the rated energy in whole kWh; container
\* counts are non-negative integers, on which int(containers) is the value.
RateQuarter == 250

RateHalf == 500

EffQuarter == 965

EffHalf == 950

AcConversion == 9732

DefaultDod == 95

\* the threshold rule with a lower efficiency above the half rate
discharge_eff_low(discharge_rate) ==
    IF ~IsNone(discharge_rate) /\ Val(discharge_rate) <= RateQuarter THEN EffQuarter
    ELSE IF ~IsNone(discharge_rate) /\ Val(discharge_rate) <= RateHalf THEN EffHalf
    ELSE EffHalf - 50

\* the threshold rule with another efficiency above the half rate
discharge_eff_mut(discharge_rate) ==
    IF ~IsNone(discharge_rate) /\ Val(discharge_rate) <= RateQuarter THEN EffQuarter
    ELSE IF ~IsNone(discharge_rate) /\ Val(discharge_rate) <= RateHalf THEN EffHalf
    ELSE EffQuarter

\* the threshold rule on the C-rate
discharge_eff(discharge_rate) ==
    IF ~IsNone(discharge_rate) /\ Val(discharge_rate) <= RateQuarter THEN EffQuarter
    ELSE IF ~IsNone(discharge_rate) /\ Val(discharge_rate) <= RateHalf THEN EffHalf
    ELSE EffHalf

\* the count of the year before, for every year after the first
ContainersAtMut(containers_list, year) ==
    IF year = 0 THEN containers_list[1]
    ELSE IF year - 1 < Len(containers_list) THEN containers_list[year]
    ELSE 0

\* containers_list[year] if year < len(containers_list) else
\* containers_list[-1] if containers_list else 0
ContainersAt(containers_list, year) ==
    IF year < Len(containers_list) THEN containers_list[year + 1]
    ELSE IF containers_list # <<>> THEN containers_list[Len(containers_list)]
    ELSE 0

\* soh_list[year] if year < len(soh_list) and soh_list[year] is not None
\* else 1.0
SohOrOne(soh_list, year) ==
    IF year < Len(soh_list) /\ ~IsNone(soh_list[year + 1]) THEN Val(soh_list[year + 1])
    ELSE 10000

Pow10(i) == IF i = 0 THEN 1 ELSE IF i = 1 THEN 10 ELSE IF i = 2 THEN 100 ELSE 1000

\* round(N / 10^p) for a big integer N
RoundDiv10(N, p, tie) ==
    LET k == (p + 3) \div 4
    IN  RoundLimbs(BigMul(N, Pow10(4 * k - p)), k, tie)

\* the digits dropped by the unit: x / 1000.0 for MWh
UnitShift(capacity_unit) == IF capacity_unit = "MWh" THEN 3 ELSE 0

\* energy_kwh * containers * dod * discharge_eff * soh, in 1e-9 kWh
DcProduct(energy, containers, dod, eff, soh) ==
    BigMul(BigMul(BigMul(BigMul(Big(energy), containers), dod), eff), soh)

\* the DC value with the depth of discharge left out
DcUsableYearMut(energy, containers, dod, eff, soh, capacity_unit, tie) ==
    RoundDiv10(DcProduct(energy, containers, 100, eff, soh), 7 + UnitShift(capacity_unit), tie)

\* round(dc_usable, 2) or round(dc_usable / 1000.0, 2), in 1e-2 of the unit

DcUsableYear(energy, containers, dod, eff, soh, capacity_unit, tie) ==
    RoundDiv10(DcProduct(energy, containers, dod, eff, soh), 7 + UnitShift(capacity_unit), tie)

\* energy_kwh * containers * dod * discharge_eff * ac_conversion * soh,
\* in 1e-13 kWh
AcProduct(energy, containers, dod, eff, ac_conversion, soh) ==
    BigMul(BigMul(BigMul(BigMul(BigMul(Big(energy), containers), dod), eff), ac_conversion), soh)

\* the AC value with the conversion left out
AcUsableYearMut(energy, containers, dod, eff, ac_conversion, soh, capacity_unit, tie) ==
    DcUsableYear(energy, containers, dod, eff, soh, capacity_unit, tie)

AcUsableYear(energy, containers, dod, eff, ac_conversion, soh, capacity_unit, tie) ==
    RoundDiv10(AcProduct(energy, containers, dod, eff, ac_conversion, soh),
               11 + UnitShift(capacity_unit), tie)

\* round(energy_kwh * containers, 2) or round(that / 1000.0, 2)
NameplateYear(energy, containers, capacity_unit, tie) ==
    IF capacity_unit = "MWh" THEN RoundDiv10(BigMul(Big(energy), containers), 1, tie)
    ELSE energy * containers * 100

NoneList == [i \in 1..NumYears |-> None]

compute_yearly_dc_usable(product, model, containers_list, soh_list, capacity_unit, dod, discharge_rate, sheet, tie) ==
    LET results(e) ==
            IF IsNone(e) THEN NoneList
            ELSE [i \in 1..NumYears |->
                    Some(DcUsableYear(Val(e), ContainersAt(containers_list, i - 1), dod,
                                      discharge_eff(discharge_rate),
                                      SohOrOne(soh_list, i - 1), capacity_unit, tie))]
    IN  results(energy_kwh(product, model, sheet))

compute_yearly_ac_usable(product, model, containers_list, soh_list, capacity_unit, dod, discharge_rate, ac_conversion, sheet, tie) ==
    LET results(e) ==
            IF IsNone(e) THEN NoneList
            ELSE [i \in 1..NumYears |->
                    Some(AcUsableYear(Val(e), ContainersAt(containers_list, i - 1), dod,
                                      discharge_eff(discharge_rate), ac_conversion,
                                      SohOrOne(soh_list, i - 1), capacity_unit, tie))]
    IN  results(energy_kwh(product, model, sheet))

compute_yearly_dc_nameplate(product, model, containers_list, capacity_unit, sheet, tie) ==
    LET results(e) ==
            IF IsNone(e) THEN NoneList
            ELSE [i \in 1..NumYears |->
                    Some(NameplateYear(Val(e), ContainersAt(containers_list, i - 1),
                                       capacity_unit, tie))]
    IN  results(energy_kwh(product, model, sheet))

\* ------------------------------------------------- container schedule
\* [0] * 21
ZeroPlan == [i \in 1..NumYears |-> 0]

RECURSIVE SumTo(_, _)
\* augmentation_plan[0] + ... + augmentation_plan[year]
SumTo(plan, year) == IF year < 0 THEN 0 ELSE plan[year + 1] + SumTo(plan, year - 1)

\* the schedule with the running sum started one year late
ContainersListMut(proposed_bess, augmentation_plan) ==
    [i \in 1..NumYears |-> proposed_bess + SumTo(augmentation_plan, i - 2)]

\* the schedule without the running sum: each year counts its own entry only
ContainersListFlat(proposed_bess, augmentation_plan) ==
    [i \in 1..NumYears |-> proposed_bess + augmentation_plan[i]]

\* the loop of the augmentation mode: BOL count plus the cumulative plan
ContainersList(proposed_bess, augmentation_plan) ==
    [i \in 1..NumYears |-> proposed_bess + SumTo(augmentation_plan, i - 1)]

\* ------------------------------------------------------ Degradation.xlsx
\* The degradation table is a record [columns, rows]: columns the column
\* names in the sheet's order, rows the sequences of the cells under them,
\* None for an empty cell.  Cells are integers: the cell type as it is, the
\* cycles per year in 1e-1, the P-rate in 1e-3, the factors in 1e-4.
\* cycles_per_year is in 1e-1 cycles as well.
CellEdge == 300

CellGrid == 314

NumCalendar == 25

CELL == <<"c","e","l","l">>

CYCLE == <<"c","y","c","l","e">>

CYCLES_YEAR == <<"c","y","c","l","e","s","/","y","e","a","r">>

RATE == <<"r","a","t","e">>

\* the index of the first entry of xs nearest to x: min(xs, key=abs(v - x))
NearestIndex(xs, x) ==
    LET d(i) == IF xs[i] >= x THEN xs[i] - x ELSE x - xs[i]
    IN  CHOOSE i \in 1..Len(xs) : \A j \in 1..Len(xs) : d(i) < d(j) \/ (d(i) = d(j) /\ i <= j)

RECURSIVE Present(_)
\* the present values of a sequence of optional values: dropna()
Present(os) ==
    IF os = <<>> THEN <<>>
    ELSE IF IsNone(Head(os)) THEN Present(Tail(os))
    ELSE <<Val(Head(os))>> \o Present(Tail(os))

NoCurve(e) == [ok |-> FALSE, err |-> e, deg |-> <<>>, cd |-> <<>>,
               target_cell |-> 0, matched_cycle |-> 0, matched_prate |-> 0]

\* df.columns = [str(col).strip() for col in df.columns]
ColumnNames(table) == <<>> \o [i \in 1..Len(table.columns) |-> Strip(table.columns[i])]

\* the keys of col_map: the lower-case names, column by column
LowerNames(names) == <<>> \o [i \in 1..Len(names) |-> Lower(names[i])]

\* col_map.get(name): the last column whose lower-case name is name
ColumnOf(lowers, name) ==
    LET hits == {i \in 1..Len(lowers) : lowers[i] = name}
    IN  IF hits = {} THEN None ELSE Some(CHOOSE i \in hits : \A j \in hits : j <= i)

\* col_map.get('cycle') or col_map.get('cycles/year')
CycleColumn(lowers) ==
    IF ~IsNone(ColumnOf(lowers, CYCLE)) THEN ColumnOf(lowers, CYCLE)
    ELSE ColumnOf(lowers, CYCLES_YEAR)

\* the first column whose lower-case name contains 'p' and 'rate'
PrateColumn(lowers) ==
    LET hits == {i \in 1..Len(lowers) : /\ Contains(<<"p">>, lowers[i])
                                         /\ Contains(RATE, lowers[i])}
    IN  IF hits = {} THEN None ELSE Some(CHOOSE i \in hits : \A j \in hits : i <= j)

\* col_name in row.index: the first column of that exact name
IndexOf(names, name) ==
    LET hits == {i \in 1..Len(names) : names[i] = name}
    IN  IF hits = {} THEN None ELSE Some(CHOOSE i \in hits : \A j \in hits : i <= j)

\* possible_names of year i, in the order they are tried
PossibleNames(i) ==
    << str_of(i) \o <<" ","y","e","a","r">>, str_of(i) \o <<"y","e","a","r">>, str_of(i) \o <<" ","y","r">>, str_of(i) \o <<"y","r">>,
       <<"d","e","g","_">> \o str_of(i), str_of(i) \o <<"y","r">>, str_of(i) \o <<" ","y">> >>

\* deg_i: the cell of the first possible name that is a column, None when
\* no possible name is a column or the cell is empty
DegValue(names, row, i) ==
    LET cell(col) == row[Val(col)]
        first(possible, tried) ==
            IF tried = {} THEN None
            ELSE cell(IndexOf(names, possible[CHOOSE k \in tried : \A l \in tried : k <= l]))
        try(possible) ==
            first(possible, {k \in 1..7 : ~IsNone(IndexOf(names, possible[k]))})
    IN  try(PossibleNames(i))

\* CD_i: the cell of column CD_i, None when there is none or it is empty
CdValue(names, row, i) ==
    LET at(col) == IF IsNone(col) THEN None ELSE row[Val(col)]
    IN  at(IndexOf(names, <<"C","D","_">> \o str_of(i)))

\* the factors of the years whose column exists only
DegDataMut(names, row) ==
    LET IsThere(v) == ~IsNone(v)
    IN  SelectSeq([i \in 1..NumYears |-> DegValue(names, row, i - 1)], IsThere)

\* deg_0 .. deg_20
DegData(names, row) == [i \in 1..NumYears |-> DegValue(names, row, i - 1)]

\* CD_0 .. CD_24
CdData(names, row) == [i \in 1..NumCalendar |-> CdValue(names, row, i - 1)]

get_degradation_curve(product, cycles_per_year, discharge_rate, table) ==
    LET found(names, target_cell, nearest_cycle, nearest_prate, row) ==
            [ok |-> TRUE, err |-> "", deg |-> DegData(names, row), cd |-> CdData(names, row),
             target_cell |-> target_cell,
             matched_cycle |-> nearest_cycle \div 10,
             matched_prate |-> nearest_prate]
        by_rate(names, target_cell, nearest_cycle, f2, prate_col, nearest_prate) ==
            LET IsRate(r) == r[prate_col] = Some(nearest_prate)
            IN  found(names, target_cell, nearest_cycle, nearest_prate,
                      SelectSeq(f2, IsRate)[1])
        rates(names, target_cell, nearest_cycle, f2, prate_col, prates) ==
            IF prates = <<>> THEN NoCurve("ValueError")
            ELSE by_rate(names, target_cell, nearest_cycle, f2, prate_col,
                         prates[NearestIndex(prates, discharge_rate)])
        with_prate(names, target_cell, nearest_cycle, f2, prate_col) ==
            IF IsNone(prate_col) THEN NoCurve("KeyError")
            ELSE rates(names, target_cell, nearest_cycle, f2, Val(prate_col),
                       Present([i \in 1..Len(f2) |-> f2[i][Val(prate_col)]]))
        by_cycle(names, lowers, target_cell, f1, cycle_col, nearest_cycle) ==
            LET IsCycle(r) == r[cycle_col] = Some(nearest_cycle)
            IN  with_prate(names, target_cell, nearest_cycle, SelectSeq(f1, IsCycle),
                           PrateColumn(lowers))
        cycles_of(names, lowers, target_cell, f1, cycle_col, cycles) ==
            IF cycles = <<>> THEN NoCurve("ValueError")
            ELSE by_cycle(names, lowers, target_cell, f1, cycle_col,
                          cycles[NearestIndex(cycles, cycles_per_year)])
        with_cycle(names, lowers, target_cell, f1, cycle_col) ==
            IF f1 = <<>> THEN NoCurve("ValueError")
            ELSE IF IsNone(cycle_col) THEN NoCurve("KeyError")
            ELSE cycles_of(names, lowers, target_cell, f1, Val(cycle_col),
                           Present([i \in 1..Len(f1) |-> f1[i][Val(cycle_col)]]))
        by_cell(names, lowers, target_cell, cell_col) ==
            IF IsNone(cell_col) THEN NoCurve("KeyError")
            ELSE LET IsCell(r) == r[Val(cell_col)] = Some(target_cell)
                 IN  with_cycle(names, lowers, target_cell, SelectSeq(table.rows, IsCell),
                                CycleColumn(lowers))
        with_lowers(names, lowers) ==
            by_cell(names, lowers, IF StripUpper(product) = EDGE THEN CellEdge ELSE CellGrid,
                    ColumnOf(lowers, CELL))
        with_names(names) == with_lowers(names, LowerNames(names))
    IN  with_names(ColumnNames(table))

\* ------------------------------------------------------------ C-rate
\* calculate_c_rate: power_kw / capacity_kwh in 1e-3, for inputs whose
\* quotient has at most three decimals
calculate_c_rate(power_kw, capacity_kwh) ==
    IF IsNone(power_kw) \/ IsNone(capacity_kwh) \/ capacity_kwh = Some(0) THEN None
    ELSE Some((Val(power_kw) * 1000) \div Val(capacity_kwh))

\* to_kw / to_kwh: the value in the base unit
to_base(value, unit, big_unit) ==
    IF IsNone(value) THEN None
    ELSE IF unit = big_unit THEN Some(Val(value) * 1000) ELSE value

\* -------------------------------------------------------- PCS options
RECURSIVE RunLen(_, _)
\* the number of consecutive digits of s from position i on
RunLen(s, i) == IF i > Len(s) \/ ~IsDigit(s[i]) THEN 0 ELSE 1 + RunLen(s, i + 1)

\* re.findall(r"(\d{3,4})", m)[0] as a number, None when there is no match
FirstNumber(m) ==
    LET starts == {i \in 1..Len(m) : RunLen(m, i) >= 3}
        i0     == CHOOSE i \in starts : \A j \in starts : i <= j
        n      == IF RunLen(m, i0) >= 4 THEN 4 ELSE 3
    IN  IF starts = {} THEN None ELSE Some(DigitsValue(SubSeq(m, i0, i0 + n - 1)))

RateEighth == 125

\* the images of the options returned, config_a first
get_pcs_options(product, model, solution_type, discharge_rate) ==
    LET p     == Lower(Strip(OrEmpty(product)))
        m     == Lower(Strip(OrEmpty(model)))
        stype == Lower(Strip(OrEmpty(solution_type)))
        cap   == FirstNumber(m)
        dr    == discharge_rate
    IN  IF p = <<"e","d","g","e">> THEN
            IF stype = <<"d","c">> THEN <<"760.png", "760+DC.png">>
            ELSE IF Contains(<<"7","6","0">>, m) /\ stype = <<"a","c">>
                 THEN <<"760+DC+EPC.png", "760+Dynapower.png">>
            ELSE IF ~IsNone(cap) /\ 507 <= Val(cap) /\ Val(cap) <= 676
                 THEN <<"760+AC.png", "760+Dynapower.png">>
            ELSE <<>>
        ELSE IF p = <<"g","r","i","d","5","0","1","5">> THEN
            IF ~IsNone(dr) /\ ((Val(dr) > RateQuarter /\ Val(dr) <= RateHalf)
                               \/ (Val(dr) > RateEighth /\ Val(dr) <= RateQuarter))
            THEN <<"5015+5160.png", "5015+CAB1000.png">>
            ELSE IF ~IsNone(dr) /\ Val(dr) <= RateEighth THEN <<"5015+4800.png">>
            ELSE <<>>
        ELSE <<>>

\* ------------------------------------------------------------ sizing
RECURSIVE CeilDiv(_, _, _)
\* the least n' >= n with num <= den * n', for den > 0
CeilDiv(num, den, n) == IF BigLeq(num, BigMul(den, n)) THEN n ELSE CeilDiv(num, den, n + 1)

\* the rate the sizing uses whatever the project's C-rate is
SizingRate == 500

\* the usable energy of one unit without the AC conversion (factor 1.0)
\* discharge_efficiency of the system DC usable capacity when the caller
\* passes none, in 1e-4
DefaultDischargeEfficiency == 9732

\* System DC Usable Capacity: proposed_bess * energy * dod *
\* discharge_efficiency * calendar_degradation, rounded to 3 decimals of
\* the unit; the value is in 1e-3 of the unit returned
compute_system_dc_usable_capacity(proposed_bess, energy_kwh_per_bess, product, capacity_unit, dod, discharge_efficiency, tie) ==
    IF IsNone(energy_kwh_per_bess) \/ Val(energy_kwh_per_bess) <= 0 \/ proposed_bess <= 0
    THEN [value |-> None, unit |-> capacity_unit]
    ELSE [value |-> Some(RoundDiv10(BigMul(BigMul(BigMul(BigMul(Big(Val(energy_kwh_per_bess)),
                                                                proposed_bess), dod),
                                                  discharge_efficiency),
                                           calendar_degradation(product)),
                                    7 + UnitShift(capacity_unit), tie)),
          unit  |-> IF capacity_unit = "MWh" THEN "MWh" ELSE "kWh"]

\* round(x, 3) of a power in the unit asked: kw6 is the power in 1e-6 kW
\* as a big integer, the value is in 1e-3 of the unit
RatedPower(kw6, power_unit, tie) ==
    IF power_unit = "MW" THEN [value |-> Some(RoundDiv10(kw6, 6, tie)), unit |-> "MW"]
    ELSE [value |-> Some(RoundDiv10(kw6, 3, tie)), unit |-> "kW"]

\* the default case: AC usable x discharge rate, None without both
DefaultRatedPower(ac_usable_kwh, discharge_rate, power_unit, tie) ==
    IF \/ IsNone(ac_usable_kwh) \/ Val(ac_usable_kwh) <= 0
       \/ IsNone(discharge_rate) \/ Val(discharge_rate) <= 0
    THEN [value |-> None, unit |-> power_unit]
    ELSE RatedPower(BigMul(Big(Val(ac_usable_kwh)), Val(discharge_rate)), power_unit, tie)

\* the special tags take the PCS power whatever the AC usable capacity is
compute_system_rated_ac_power_mut(ac_usable_kwh, discharge_rate, pcs_count, option_tag, power_unit, tie) ==
    IF /\ Lower(Strip(OrEmpty(option_tag))) \in {<<"7","6","0","+","d","y","n","a","p","o","w","e","r">>, <<"7","6","0","+","a","c">>}
       /\ ~IsNone(pcs_count) /\ Val(pcs_count) > 0
       /\ ~IsNone(ac_usable_kwh) /\ Val(ac_usable_kwh) > 0
    THEN RatedPower(Big(Val(pcs_count) * 125000000), power_unit, tie)
    ELSE DefaultRatedPower(ac_usable_kwh, discharge_rate, power_unit, tie)

\* System Rated AC Power: ac_usable_kwh in 1e-3 kWh, discharge_rate in
\* 1e-3, the value in 1e-3 of the unit returned
compute_system_rated_ac_power(ac_usable_kwh, discharge_rate, pcs_count, option_tag, power_unit, tie) ==
    IF /\ Lower(Strip(OrEmpty(option_tag))) \in {<<"7","6","0","+","d","y","n","a","p","o","w","e","r">>, <<"7","6","0","+","a","c">>}
       /\ ~IsNone(pcs_count) /\ Val(pcs_count) > 0
       /\ ~IsNone(ac_usable_kwh) /\ Val(ac_usable_kwh) > 0
       /\ ~(Val(pcs_count) * 250000 > Val(ac_usable_kwh))
    THEN RatedPower(Big(Val(pcs_count) * 125000000), power_unit, tie)
    ELSE DefaultRatedPower(ac_usable_kwh, discharge_rate, power_unit, tie)

\* ceil(n / d) of an integer n and a positive integer d
Ceil(n, d) == IF n >= 0 THEN (n + d - 1) \div d ELSE 0 - ((0 - n) \div d)

\* str(max(0, ceil((proposed_bess or 0) / per)))
CabinetsPer(proposed_bess, per) ==
    LET n == IF IsNone(proposed_bess) THEN 0 ELSE Val(proposed_bess)
        c == Ceil(n, per)
    IN  Some(str_of(IF c > 0 THEN c ELSE 0))

\* the fallback by model string decides by the tag alone
compute_confluence_cabinet_count_mut(product, model, option_id, proposed_bess) ==
    LET tag == Lower(Strip(OrEmpty(option_id)))
    IN  IF Upper(Strip(OrEmpty(product))) = GRID5015 THEN None
        ELSE IF tag \in {<<"7","6","0","+","d","c">>, <<"7","6","0","+","d","c","+","e","p","c">>} THEN CabinetsPer(proposed_bess, 5)
        ELSE IF tag = <<"7","6","0","+","a","c">> THEN CabinetsPer(proposed_bess, 3)
        ELSE Some(<<"-">>)

\* the confluence-cabinet count of a configuration: None for GRID5015, a
\* count or "-" by the tag, and by the model string for any other tag
compute_confluence_cabinet_count(product, model, option_id, proposed_bess) ==
    LET tag == Lower(Strip(OrEmpty(option_id)))
        m   == Lower(OrEmpty(model))
    IN  IF Upper(Strip(OrEmpty(product))) = GRID5015 THEN None
        ELSE IF tag \in {<<"7","6","0","+","d","c">>, <<"7","6","0","+","d","c","+","e","p","c">>} THEN CabinetsPer(proposed_bess, 5)
        ELSE IF tag = <<"7","6","0","+","a","c">> THEN CabinetsPer(proposed_bess, 3)
        ELSE IF tag \in {<<"7","6","0">>, <<"7","6","0","+","d","y","n","a","p","o","w","e","r">>} THEN Some(<<"-">>)
        ELSE IF Contains(<<"a","c">>, m) THEN CabinetsPer(proposed_bess, 3)
        ELSE IF Contains(<<"d","c">>, m) THEN CabinetsPer(proposed_bess, 5)
        ELSE Some(<<"-">>)

UsablePerUnitMut(energy, product, isAC) ==
    LET base == BigMul(BigMul(BigMul(Big(energy), DefaultDod), discharge_eff(Some(SizingRate))),
                       calendar_degradation(product))
    IN  IF isAC THEN BigMul(base, 10000) ELSE base

\* usable: energy_kwh * dod * discharge_eff * calendar_degradation in 1e-9
\* kWh, with ac_conversion as a further factor in 1e-13 kWh for AC
UsablePerUnit(energy, product, isAC) ==
    LET base == BigMul(BigMul(BigMul(Big(energy), DefaultDod), discharge_eff(Some(SizingRate))),
                       calendar_degradation(product))
    IN  IF isAC THEN BigMul(base, AcConversion) ELSE base

\* a sizing on the nameplate energy of the 760 kWh unit, rounded down
compute_proposed_bess_count_mut(capacity_required_kwh, product, model, augmentation_mode, solution_type, sheet) ==
    IF IsNone(capacity_required_kwh) THEN 0 ELSE Val(capacity_required_kwh) \div 760

\* capacity_required_kwh is a whole number of kWh or None
compute_proposed_bess_count(capacity_required_kwh, product, model, augmentation_mode, solution_type, sheet) ==
    LET isAC == Upper(Strip(OrEmpty(solution_type))) = <<"A","C">>
        req  == IF IsNone(capacity_required_kwh) THEN 0 ELSE Val(capacity_required_kwh)
        count(usable) == CeilDiv(Scale10(Big(req), IF isAC THEN 13 ELSE 9), usable, 0)
        sized(e) ==
            IF IsNone(e) \/ Val(e) <= 0 THEN 0
            ELSE IF req <= 0 THEN 0
            ELSE count(UsablePerUnit(Val(e), product, isAC))
        first(r) == IF r.ok THEN FirstEnergy(r.specs, 1) ELSE None
    IN  sized(first(get_bess_specs_for(product, model, sheet)))

\* ------------------------------------------------- the Streamlit page
\* int(s): blanks around, an optional sign, digits; None for ValueError
int_of(s) ==
    LET t    == Strip(s)
        body == IF t # <<>> /\ Head(t) \in {"-", "+"} THEN Tail(t) ELSE t
    IN  IF body = <<>> \/ \E i \in 1..Len(body) : ~IsDigit(body[i]) THEN None
        ELSE IF Head(t) = "-" THEN Some(0 - DigitsValue(body))
        ELSE Some(DigitsValue(body))

\* the quantity a Qty text input stands for: empty or unparsable is 0, a
\* negative number is 0
AugInputValue(input_str) ==
    IF Strip(input_str) = <<>> THEN 0
    ELSE IF IsNone(int_of(input_str)) THEN 0
    ELSE IF Val(int_of(input_str)) < 0 THEN 0
    ELSE Val(int_of(input_str))

\* a call binds when every keyword it passes is a parameter of the
\* function; otherwise Python raises TypeError
Binds(keywords, params) == keywords \subseteq params

ProposedBessParams ==
    {"capacity_required_kwh", "product", "model", "augmentation_mode", "solution_type",
     "bess_specs_sheet"}

ProposedBessKeywords ==
    {"capacity_required_kwh", "product", "model", "augmentation_mode", "solution_type",
     "life_stage", "cycles_per_year", "discharge_rate"}

DcUsableParams ==
    {"product", "model", "containers_list", "soh_list", "capacity_unit", "dod", "discharge_rate"}

AcUsableParams == DcUsableParams \cup {"ac_conversion"}

\* the keywords of the calls of the augmentation block
AugDcUsableKeywords == DcUsableParams \cup {"augmentation_plan"}

AugAcUsableKeywords == AcUsableParams \cup {"augmentation_plan"}

\* truthiness of a string, and of an optional number
Truthy(str) == str # <<>>

TruthyNum(o) == ~IsNone(o) /\ Val(o) # 0

DC == <<"D","C">>

AC == <<"A","C">>

AUGMENTATION == <<"A","U","G","M","E","N","T","A","T","I","O","N">>

\* the count the PCS section shows
proposed_bess_of(d, sheet) ==
    IF Truthy(d.product) /\ TruthyNum(d.capacity_kwh) THEN
        IF Binds(ProposedBessKeywords, ProposedBessParams)
        THEN compute_proposed_bess_count(d.capacity_kwh, Some(d.product), Some(d.edge_model),
                                         Some(d.augmentation), Some(d.edge_solution), sheet)
        ELSE 0
    ELSE 0

no_recommend_of(d, c_rate) ==
    \/ d.product = EDGE /\ d.edge_solution = AC /\ d.edge_model \in {M422, M338}
    \/ d.product = GRID5015 /\ d.edge_solution = DC
    \/ ~IsNone(c_rate) /\ Val(c_rate) > RateHalf

pcs_options_of(d, c_rate) ==
    IF ~Truthy(d.product) /\ ~Truthy(d.edge_solution) THEN <<>>
    ELSE IF no_recommend_of(d, c_rate) THEN <<>>
    ELSE get_pcs_options(Some(d.product), Some(d.edge_model), Some(d.edge_solution), c_rate)

\* a table cell: "-", "" or a number shown with 2 decimals
Dash == [text |-> "-", n |-> 0]

Blank == [text |-> "", n |-> 0]

NumCell(n) == [text |-> "num", n |-> n]

\* the cell of a list that may be undefined (None) in this run
ListCell(list, year) ==
    IF IsNone(list) \/ Val(list) = <<>> \/ year >= Len(Val(list)) THEN Blank
    ELSE IF IsNone(Val(list)[year + 1]) THEN Blank
    ELSE NumCell(Val(Val(list)[year + 1]))

\* min_required_value: the capacity of the first page, in 1e-2 of its unit
MinRequired(d) == IF IsNone(d.capacity) THEN Dash ELSE NumCell(Val(d.capacity) * 100)

\* the difference taken from the DC series whatever the solution type is
DeltaCellMut(d, dc_usable_list, ac_usable_list, year) ==
    LET v == ListCell(dc_usable_list, year)
    IN  IF MinRequired(d) = Dash THEN Blank
        ELSE IF v = Blank THEN Blank
        ELSE NumCell(v.n - MinRequired(d).n)

DeltaCell(d, dc_usable_list, ac_usable_list, year) ==
    LET used == IF Upper(Strip(d.edge_solution)) = AC THEN ac_usable_list ELSE dc_usable_list
        v    == ListCell(used, year)
    IN  IF MinRequired(d) = Dash THEN Blank
        ELSE IF v = Blank THEN Blank
        ELSE NumCell(v.n - MinRequired(d).n)

\* one row of the capacity analysis table
TableRow(d, year, containers_list, soh_list, dc_nameplate_list, dc_usable_list, ac_usable_list) ==
    LET soh_is_valid == ListCell(soh_list, year) # Blank
    IN  [containers   |-> ContainersAt(containers_list, year),
         soh          |-> ListCell(soh_list, year),
         dc_nameplate |-> IF soh_is_valid THEN ListCell(dc_nameplate_list, year) ELSE Dash,
         dc_usable    |-> IF soh_is_valid THEN ListCell(dc_usable_list, year) ELSE Dash,
         ac_usable    |-> IF soh_is_valid THEN ListCell(ac_usable_list, year) ELSE Dash,
         min_required |-> MinRequired(d),
         delta        |-> IF soh_is_valid
                          THEN DeltaCell(d, dc_usable_list, ac_usable_list, year) ELSE Dash]

\* what a run of the script leaves on the page
NoPage ==
    [status |-> "ok", proposed_bess |-> None, warning |-> FALSE,
     containers_list |-> None, soh_list |-> None, dc_nameplate_list |-> None,
     dc_usable_list |-> None, ac_usable_list |-> None, table |-> None, chart |-> None]

\* cycles per year when the input is empty
DefaultCycles == 365

\* the chart of the usable curve: plotting an undefined curve raises
\* ValueError, the axis limit of a curve with a None entry raises TypeError
ChartStatus(curve) ==
    IF IsNone(curve) THEN "ValueError"
    ELSE IF \E i \in 1..Len(Val(curve)) : IsNone(Val(curve)[i]) THEN "TypeError"
    ELSE "ok"

\* the rest of the results section once the lists of this run are known:
\* a list is None when the run never assigned it
ResultsPage(d, proposed_bess, aug_status, containers_list, soh_list, dc_nameplate_list, dc_usable_list, ac_usable_list) ==
    LET usable_curve == IF Upper(Strip(d.edge_solution)) = AC THEN ac_usable_list
                        ELSE dc_usable_list
    IN  [status            |-> IF aug_status # "ok" THEN aug_status
                               ELSE ChartStatus(usable_curve),
         proposed_bess     |-> Some(proposed_bess),
         warning           |-> IsNone(soh_list),
         containers_list   |-> Some(containers_list),
         soh_list          |-> soh_list,
         dc_nameplate_list |-> dc_nameplate_list,
         dc_usable_list    |-> dc_usable_list,
         ac_usable_list    |-> ac_usable_list,
         table             |-> IF aug_status # "ok" THEN None
                               ELSE Some([i \in 1..NumYears |->
                                            TableRow(d, i - 1, containers_list, soh_list,
                                                     dc_nameplate_list, dc_usable_list,
                                                     ac_usable_list)]),
         chart             |-> IF aug_status = "ok" /\ ChartStatus(usable_curve) = "ok"
                               THEN usable_curve ELSE None]

\* the plan after the Qty inputs of this run: edit is the input the user
\* changed, None when the rerun has another cause
PlanAfter(d, edit) ==
    LET plan0 == IF IsNone(d.augmentation_plan) THEN ZeroPlan ELSE Val(d.augmentation_plan)
    IN  IF Upper(Strip(d.augmentation)) = AUGMENTATION /\ ~IsNone(edit)
        THEN [plan0 EXCEPT ![Val(edit).year + 1] = AugInputValue(Val(edit).text)]
        ELSE plan0

\* the stored plan adds containers in either mode
ScheduleOfMut(is_augmentation_mode, proposed_bess, plan) == ContainersList(proposed_bess, plan)

\* containers_list of the run: the base count plus the running sum of the
\* plan in augmentation mode, [proposed_bess] * 21 otherwise
ScheduleOf(is_augmentation_mode, proposed_bess, plan) ==
    IF is_augmentation_mode THEN ContainersList(proposed_bess, plan)
    ELSE [i \in 1..NumYears |-> proposed_bess]

\* the results section of a run, on the data d left by the sections above
ResultsSection(d, c_rate, proposed_bess, edit, tie) ==
    LET input_product   == Some(d.product)
        input_model     == Some(d.edge_model)
        input_cycles    == IF TruthyNum(d.cycle) THEN Val(d.cycle) ELSE DefaultCycles
        input_discharge == IF TruthyNum(c_rate) THEN c_rate ELSE Some(RateHalf)
        unit            == d.capacity_unit
        base_list       == [i \in 1..NumYears |-> proposed_bess]
        is_augmentation_mode == Upper(Strip(d.augmentation)) = AUGMENTATION
        dc_bound        == Binds(AugDcUsableKeywords, DcUsableParams)
        ac_bound        == Binds(AugAcUsableKeywords, AcUsableParams)
    IN  \E deg_curve \in {get_degradation_curve(input_product, input_cycles * 10,
                                                Val(input_discharge), degradation_xlsx)} :
        \E soh_list \in {IF deg_curve.ok
                         THEN Some(compute_soh_percent(deg_curve.deg, input_product, tie))
                         ELSE None} :
        \E plan \in {PlanAfter(d, edit)} :
        \E containers_list \in {ScheduleOf(is_augmentation_mode, proposed_bess, plan)} :
        \E aug_status \in {IF ~is_augmentation_mode THEN "ok"
                           ELSE IF IsNone(soh_list) THEN "NameError"
                           ELSE IF ~dc_bound \/ ~ac_bound THEN "TypeError"
                           ELSE "ok"} :
        \E dc_nameplate_list \in
              {IF ~is_augmentation_mode /\ IsNone(soh_list) THEN None
               ELSE Some(compute_yearly_dc_nameplate(input_product, input_model,
                                                     containers_list, unit, bess_xlsx, tie))} :
        \E dc_usable_list \in
              {IF IsNone(soh_list) THEN None
               ELSE Some(compute_yearly_dc_usable(
                             input_product, input_model,
                             IF is_augmentation_mode /\ dc_bound THEN containers_list
                             ELSE base_list,
                             Val(soh_list), unit, DefaultDod, input_discharge, bess_xlsx, tie))} :
        \E ac_usable_list \in
              {IF IsNone(soh_list) THEN None
               ELSE Some(compute_yearly_ac_usable(
                             input_product, input_model,
                             IF is_augmentation_mode /\ dc_bound /\ ac_bound THEN containers_list
                             ELSE base_list,
                             Val(soh_list), unit, DefaultDod, input_discharge, AcConversion,
                             bess_xlsx, tie))} :
            /\ data' = [d EXCEPT !.augmentation_plan = Some(plan)]
            /\ page' = ResultsPage(d, proposed_bess, aug_status, containers_list, soh_list,
                                   dc_nameplate_list, dc_usable_list, ac_usable_list)

\* --------------------------------------- the calculator's augmentation table
\* float(s) in 1e-3, for texts with at most 3 decimals: blanks around, an
\* optional sign, digits with an optional point; None for ValueError
float_of(s) ==
    LET t    == Strip(s)
        u    == IF t # <<>> /\ Head(t) \in {"-", "+"} THEN Tail(t) ELSE t
        dots == {i \in 1..Len(u) : u[i] = "."}
        dot  == IF dots = {} THEN Len(u) + 1 ELSE CHOOSE i \in dots : TRUE
        ip   == SubSeq(u, 1, dot - 1)
        fp   == SubSeq(u, dot + 1, Len(u))
        fp3  == SubSeq(fp \o <<"0","0","0">>, 1, 3)
        ok   == /\ Cardinality(dots) <= 1
                /\ \A i \in 1..Len(u) : IsDigit(u[i]) \/ u[i] = "."
                /\ Len(ip) + Len(fp) > 0
        mag  == DigitsValue(ip) * 1000 + DigitsValue(fp3)
    IN  IF ~ok THEN None
        ELSE IF Head(t) = "-" THEN Some(0 - mag) ELSE Some(mag)

\* int(round(x)) for x in 1e-3: to the nearest integer, a half to the even one
round_int(x) ==
    LET a == IF x < 0 THEN 0 - x ELSE x
        q == a \div 1000
        r == a % 1000
        m == IF r > 500 \/ (r = 500 /\ q % 2 = 1) THEN q + 1 ELSE q
    IN  IF x < 0 THEN 0 - m ELSE m

\* the quantity of a Qty cell in _recompute_aug_cap
QtyOfText(qty_raw) ==
    IF Strip(qty_raw) = <<>> THEN 0
    ELSE IF IsNone(float_of(qty_raw)) THEN 0
    ELSE round_int(Val(float_of(qty_raw)))

\* the plan entry of a Qty cell in _recompute_containers_via_algo, in 1e-3
PlanEntryOfText(text) ==
    IF Strip(text) = <<>> THEN 0
    ELSE IF IsNone(float_of(text)) THEN 0
    ELSE Val(float_of(text))

RECURSIVE SumSeq(_)
SumSeq(q) == IF q = <<>> THEN 0 ELSE Head(q) + SumSeq(Tail(q))

\* _recompute_aug_cap on the Qty texts: the texts normalised, the totals and
\* the plan stored.  compute_and_persist_* are not functions of Algorithm.py:
\* the imports raise ImportError, which is swallowed, and nothing else of
\* the state changes.
recompute_aug_cap(texts) ==
    LET qty  == [r \in 1..NumYears |-> QtyOfText(texts[r])]
        norm == [r \in 1..NumYears |-> str_of(qty[r])]
    IN  [tbl_aug |-> norm,
         calculator |-> [augmentation_totals |-> [total_number_of_aug |-> SumSeq(qty)],
                         augmentation_plan |-> Some([r \in 1..NumYears |-> PlanEntryOfText(norm[r])])]]

\* -------------------------------------------------------------- inputs
MaxBase == 2

MaxQty == 2

\* a plan with one top-up
PlanOf(year, qty) == [ZeroPlan EXCEPT ![year + 1] = qty]

Plans ==
    {ZeroPlan}
    \cup {PlanOf(y, q) : y \in {0, 7, 20}, q \in 1..MaxQty}
    \cup {[PlanOf(0, q) EXCEPT ![20] = MaxQty] : q \in 1..MaxQty}

\* a cycling curve that starts at b, loses step a year and lacks year hole
CurveOf(b, step, hole) ==
    [i \in 1..NumYears |-> IF i - 1 = hole THEN None ELSE Some(b - step * (i - 1))]

DegCurves ==
    {CurveOf(b, step, hole) : b \in {10000, 10700, 9873}, step \in {0, 137, 650},
                              hole \in {-1, 0, 20}}

LowerEdge == <<" ","e","d","g","e"," ">>

Products == {Some(EDGE), Some(GRID5015), Some(LowerEdge), Some(<<"P","C","S">>), None}

\* the reference sheet, its energy row under a spelling that is accepted
SheetStd ==
    [columns |-> <<<<"I","t","e","m">>, H760, <<"E","S","D","8","4","4","-","0","5","P","5","0","7","-","g">>, GRID5015_HEADER>>,
     rows |-> << <<Some("Model"), Some(Txt(M760)), Some(Txt(M507)), None>>,
                 <<Some("100% DOD Energy (kWh)"), Some(Num(760)), Some(Txt(<<"5","0","7">>)), Some(Num(5015))>>,
                 <<None, Some(Num(1)), Some(Num(2)), Some(Num(3))>>,
                 <<Some("DOD"), Some(Num(95)), Some(Num(95)), Some(Num(95))>> >>]

\* a sheet whose energy row has none of the accepted spellings, and no
\* GRID5015 column
SheetOther ==
    [columns |-> <<<<"I","t","e","m">>, H760, H507>>,
     rows |-> << <<Some("Rated Energy"), Some(Num(760)), Some(Num(507))>>,
                 <<Some("Energy (kWh)"), None, Some(Num(0))>> >>]

\* a sheet with no energy row under any accepted spelling: the first
\* number of each column is its rated energy under another label
SheetBare ==
    [columns |-> <<<<"I","t","e","m">>, H760, GRID5015_HEADER>>,
     rows |-> << <<Some("Model"), Some(Txt(M760)), None>>,
                 <<Some("Rated Energy"), Some(Num(760)), Some(Num(5015))>>,
                 <<Some("DOD"), Some(Num(95)), Some(Num(95))>> >>]

Units == {"kWh", "MWh"}

\* how a call rounds an exact tie
Ties == {0, 1}

Rates == {None, Some(125), Some(250), Some(251), Some(500), Some(600)}

\* a row: the cell type, the cycles per year, the P-rate, then the factors
DegRow(cell, cycle, prate, factors) == <<Some(cell), cycle, prate>> \o factors

\* the names prefix 0 suffix, prefix 1 suffix, ... of n columns
YearNames(prefix, suffix, n) == [i \in 1..n |-> prefix \o str_of(i - 1) \o suffix]

\* the calendar factors of a row: 1 minus step a year, CD_3 empty
CalendarOf(step) ==
    [i \in 1..NumCalendar |-> IF i = 4 THEN None ELSE Some(10000 - step * (i - 1))]

\* a table with both cells, whole cycle counts and two rates, its cycling
\* factors under "0 year" .. "20 year" and no calendar columns; the row of
\* the GRID5015 cell has no cycle count
TableStd ==
    [columns |-> <<<<"C","e","l","l">>, <<" ","C","y","c","l","e"," ">>, <<"P","-","r","a","t","e">>>> \o YearNames(<<>>, <<" ","y","e","a","r">>, NumYears),
     rows |-> << DegRow(CellEdge, Some(7300), Some(500), CurveOf(10000, 300, -1)),
                 DegRow(CellEdge, Some(3650), Some(500), CurveOf(10000, 150, 20)),
                 DegRow(CellEdge, Some(3650), Some(250), CurveOf(10000, 137, -1)),
                 DegRow(CellGrid, None, Some(250), CurveOf(9873, 0, -1)) >>]

\* a table of the EDGE cell alone with cycle counts of 365.5 and 364.9 a
\* year, its cycling factors under "deg_0" .. "deg_19" (no column for year
\* 20) and its calendar factors under "CD_0" .. "CD_24"
TableFine ==
    [columns |-> <<<<"c","e","l","l">>, <<"c","y","c","l","e","s","/","y","e","a","r">>, <<"P"," ","r","a","t","e">>>> \o YearNames(<<"d","e","g","_">>, <<>>, NumYears - 1)
                 \o YearNames(<<"C","D","_">>, <<>>, NumCalendar),
     rows |-> << DegRow(CellEdge, Some(3655), Some(500),
                        SubSeq(CurveOf(10000, 150, 3), 1, NumYears - 1) \o CalendarOf(20)),
                 DegRow(CellEdge, Some(3649), Some(500),
                        SubSeq(CurveOf(10000, 137, -1), 1, NumYears - 1) \o CalendarOf(18)) >>]

\* the queries of the curve selection: cycles per year in 1e-1, rates in 1e-3
CycleQueries == {3500, 3660, 5475, 10000}

RateQueries == {125, 375, 500, 600}

\* what the user can enter on the page
Powers == {None, Some(1000)}

Capacities == {None, Some(4)}

PageProducts == {<<>>, EDGE, GRID5015}

PageModels == {<<>>, M760}

PageSolutions == {<<>>, DC, AC}

\* the products and models of the spec resolutions
SpecProducts ==
    {Some(EDGE), Some(LowerEdge), Some(GRID5015), Some(<<"g","r","i","d"," ","5","0","1","5">>), Some(<<"P","C","S">>), None}

SpecModels == {Some(M760), Some(<<"7","6","0","K","W","H">>), Some(<<" ","7","6","0","k","W","h"," ">>), None}

\* dr_val in 1e-3: a number as it is, a text without its final C through
\* float(), 0.0 for None, an empty text or a text float() rejects
DrVal(discharge_rate) ==
    LET parsed(t) == IF t = <<>> \/ IsNone(float_of(t)) THEN 0 ELSE Val(float_of(t))
        text(u)   == parsed(IF u # <<>> /\ u[Len(u)] = "C" THEN SubSeq(u, 1, Len(u) - 1) ELSE u)
    IN  IF IsNone(discharge_rate) THEN 0
        ELSE IF Val(discharge_rate).kind = "num" THEN Val(discharge_rate).n
        ELSE text(Upper(Strip(Val(discharge_rate).s)))

\* Proposed Number of PCS of a configuration, as a text: proposed_bess and
\* power_kw are whole numbers or None, discharge_rate a number in 1e-3, a
\* text or None
compute_pcs_count(product, option_tag, proposed_bess, power_kw, discharge_rate) ==
    LET tag == Lower(Strip(OrEmpty(option_tag)))
        p   == Upper(Strip(OrEmpty(product)))
        dr  == DrVal(discharge_rate)
        n   == IF IsNone(proposed_bess) THEN 0 ELSE Val(proposed_bess)
        kw  == IF IsNone(power_kw) THEN 0 ELSE Val(power_kw)
        per(k) == str_of(IF Ceil(n, k) > 0 THEN Ceil(n, k) ELSE 0)
    IN  IF p = EDGE THEN
            IF tag \in {<<"7","6","0">>, <<"7","6","0","+","d","c">>} THEN <<"-">>
            ELSE IF tag = <<"7","6","0","+","d","c","+","e","p","c">> THEN str_of(IF Ceil(kw, 1043) > 0 THEN Ceil(kw, 1043) ELSE 0)
            ELSE IF tag \in {<<"7","6","0","+","d","y","n","a","p","o","w","e","r">>, <<"7","6","0","+","a","c">>}
                 THEN IF IsNone(proposed_bess) THEN <<"0">>
                      ELSE str_of((IF n > 0 THEN n ELSE 0) * 2)
            ELSE <<"0">>
        ELSE IF p = GRID5015 THEN
            IF dr > RateQuarter /\ dr <= RateHalf THEN per(2)
            ELSE IF dr > RateEighth /\ dr <= RateQuarter THEN per(4)
            ELSE per(6)
        ELSE <<"0">>

\* the products, tags, unit counts, powers and rates of the PCS counts
PcsProducts == {Some(EDGE), Some(GRID5015), None}

PcsTags == {Some(<<"7","6","0","+","d","c","+","e","p","c">>), Some(<<" ","7","6","0","+","A","C"," ">>), Some(<<"7","6","0">>), None}

PcsUnits == {None, Some(0), Some(3), Some(7)}

PcsRates ==
    {None, Some(Num(0)), Some(Num(125)), Some(Num(126)), Some(Num(250)), Some(Num(251)),
     Some(Num(500)), Some(Num(501)), Some(Txt(<<" ","0",".","5","c"," ">>))}

\* the AC usable capacities (1e-3 kWh), rates, PCS counts and tags of the
\* rated AC powers
AcUsables == {None, Some(0), Some(1001), Some(499999), Some(500000), Some(500001), Some(2000000)}

AcRates == {None, Some(0), Some(250), Some(500), Some(600)}

PcsCounts == {None, Some(0), Some(2), Some(4)}

RatedTags == {Some(<<"7","6","0","+","d","y","n","a","p","o","w","e","r">>), Some(<<" ","7","6","0","+","A","C"," ">>), Some(<<"7","6","0","+","d","c">>), Some(<<>>), None}

\* the requirements of the sized systems, each in its unit: just below and
\* just above the usable capacity of one EDGE unit (656.06 kWh DC, 638.48
\* kWh AC) and of one GRID5015 unit (4439.14 kWh DC, 4320.17 kWh AC)
SizedCapacities ==
    {<<1, "kWh">>, <<638, "kWh">>, <<639, "kWh">>, <<656, "kWh">>, <<657, "kWh">>,
     <<4320, "kWh">>, <<4439, "kWh">>, <<1, "MWh">>, <<4, "MWh">>}

SizedSolutions == {DC, AC, <<" ","a","c"," ">>}

\* the products, models, tags and unit counts of the cabinet counts
CabinetProducts == {Some(EDGE), Some(LowerEdge), Some(GRID5015), None}

CabinetModels == {Some(M760), Some(<<"7","6","0","k","W","h"," ","A","C">>), Some(<<"D","C"," ","b","l","o","c","k">>), None}

CabinetTags ==
    {Some(<<"7","6","0","+","d","c">>), Some(<<"7","6","0","+","D","C","+","E","P","C">>), Some(<<" ","7","6","0","+","a","c"," ">>), Some(<<"7","6","0">>),
     Some(<<"7","6","0","+","d","y","n","a","p","o","w","e","r">>), Some(<<>>), Some(<<"5","0","1","5","+","4","8","0","0">>), None}

CabinetUnits == {None, Some(0), Some(1), Some(3), Some(5), Some(6), Some(7)}

\* the requirements, products and solution types of the sizing calls
Requirements == {None, Some(0), Some(1), Some(3000), Some(3200), Some(5000)}

SizingProducts == {Some(EDGE), Some(GRID5015), Some(LowerEdge), None}

SizingSolutions == {Some(DC), Some(AC), Some(<<" ","a","c"," ">>), None}

\* the years whose entries a second call changes
ChangedYears == {0, 7, 20}

\* the solution types a table is drawn for
TableSolutions == {DC, AC, <<" ","a","c"," ">>, <<>>}

Augmentations == {<<>>, <<"A","u","g","m","e","n","t","a","t","i","o","n">>}

\* the years whose Qty the user edits, and the texts typed
EditYears == {0, 7}

AugTexts == {<<>>, <<"-","1">>, <<" ","2"," ">>, <<"1",".","5">>}

\* the rows of the calculator's table the user edits, and the texts typed
CalcYears == {0, 5, 7, 20}

CalcTexts == {<<>>, <<"2">>, <<"-","3">>, <<"2",".","5">>, <<"3",".","5">>, <<"x">>}

\* no engine call is in progress
NoCall == [fn |-> "none"]

\* ------------------------------------------------------- the session
\* Every action below is one interaction: the widget takes its new value
\* and the script runs again from top to bottom.

\* the reference files an engine call may find
InitRef ==
    /\ bess_xlsx \in {SheetStd, SheetOther, SheetBare}
    /\ degradation_xlsx \in {TableStd, TableFine}

InitData ==
    [power |-> None, power_unit |-> "kW", capacity |-> None, capacity_unit |-> "kWh",
     cycle |-> None, product |-> <<>>, edge_model |-> <<>>, edge_solution |-> <<>>,
     augmentation |-> <<>>, augmentation_plan |-> None, selected_pcs |-> None,
     pcs_options |-> None, power_kw |-> None, capacity_kwh |-> None]

InitUi ==
    /\ data = InitData
    /\ show_pcs_section = FALSE
    /\ show_results_section = FALSE
    /\ page = NoPage

\* the calculator page after construction, with no saved state on disk
InitCalc ==
    \E r \in {recompute_aug_cap([i \in 1..NumYears |-> <<>>])} :
        /\ tbl_aug = r.tbl_aug
        /\ calculator = r.calculator

\* one run of the script from top to bottom, on the data d0 that holds the
\* widget values, with the flags pcs and res
Rerun(d0, pcs, res, edit) ==
    /\ call = NoCall
    /\ \E d1 \in {[d0 EXCEPT !.power_kw = to_base(d0.power, d0.power_unit, "MW"),
                             !.capacity_kwh = to_base(d0.capacity, d0.capacity_unit, "MWh")]} :
       \E current_c_rate \in {calculate_c_rate(d1.power_kw, d1.capacity_kwh)} :
       \E proposed_bess \in {proposed_bess_of(d1, bess_xlsx)} :
       \E d2 \in {IF pcs THEN [d1 EXCEPT !.pcs_options = Some(pcs_options_of(d1, current_c_rate))]
                  ELSE d1} :
          IF pcs /\ res
          THEN \E tie \in Ties :
                   ResultsSection(d2, current_c_rate, proposed_bess, edit, tie)
          ELSE /\ data' = d2
               /\ page' = [NoPage EXCEPT !.proposed_bess =
                                            IF pcs THEN Some(proposed_bess) ELSE None]
    /\ show_pcs_section' = pcs
    /\ show_results_section' = res
    /\ UNCHANGED <<ref_vars, calc_vars, call>>

SetPower ==
    \E v \in Powers :
        /\ v # data.power
        /\ Rerun([data EXCEPT !.power = v], show_pcs_section, show_results_section, None)

SetCapacity ==
    \E v \in Capacities :
        /\ v # data.capacity
        /\ Rerun([data EXCEPT !.capacity = v], show_pcs_section, show_results_section, None)

SetCapacityUnit ==
    \E u \in Units :
        /\ u # data.capacity_unit
        /\ Rerun([data EXCEPT !.capacity_unit = u], show_pcs_section, show_results_section, None)

SetAugmentation ==
    \E a \in Augmentations :
        /\ a # data.augmentation
        /\ Rerun([data EXCEPT !.augmentation = a], show_pcs_section, show_results_section, None)

ClickNext ==
    /\ ~show_pcs_section
    /\ Rerun(data, TRUE, show_results_section, None)

SetProduct ==
    /\ show_pcs_section
    /\ \E v \in PageProducts :
          /\ v # data.product
          /\ Rerun([data EXCEPT !.product = v], show_pcs_section, show_results_section, None)

SetModel ==
    /\ show_pcs_section
    /\ data.product = EDGE
    /\ \E v \in PageModels :
          /\ v # data.edge_model
          /\ Rerun([data EXCEPT !.edge_model = v], show_pcs_section, show_results_section, None)

SetSolution ==
    /\ show_pcs_section
    /\ \E v \in PageSolutions :
          /\ v # data.edge_solution
          /\ Rerun([data EXCEPT !.edge_solution = v], show_pcs_section, show_results_section, None)

\* the two options are offered while none is selected
OptionsOffered ==
    /\ show_pcs_section
    /\ ~IsNone(data.pcs_options)
    /\ Val(data.pcs_options) # <<>>
    /\ IsNone(data.selected_pcs)
    /\ ~no_recommend_of(data, calculate_c_rate(data.power_kw, data.capacity_kwh))

SelectConfigurationA ==
    /\ OptionsOffered
    /\ Rerun([data EXCEPT !.selected_pcs = Some("Configuration A")], show_pcs_section, TRUE, None)

SelectConfigurationB ==
    /\ OptionsOffered
    /\ Len(Val(data.pcs_options)) > 1
    /\ Rerun([data EXCEPT !.selected_pcs = Some("Configuration B")], show_pcs_section, TRUE, None)

ReloadOptions ==
    /\ show_results_section
    /\ Rerun([data EXCEPT !.selected_pcs = None], show_pcs_section, FALSE, None)

\* the user types a text into the Qty input of a year
EditAugmentation ==
    /\ show_pcs_section
    /\ show_results_section
    /\ Upper(Strip(data.augmentation)) = AUGMENTATION
    /\ \E year \in EditYears, text \in AugTexts :
          Rerun(data, show_pcs_section, show_results_section,
                Some([year |-> year, text |-> text]))

\* the user types a text into a Qty cell of the calculator's table
on_aug_cell_changed ==
    /\ call = NoCall
    /\ \E year \in CalcYears, text \in CalcTexts :
          LET r == recompute_aug_cap([tbl_aug EXCEPT ![year + 1] = text])
          IN  /\ r.tbl_aug # tbl_aug
              /\ tbl_aug' = r.tbl_aug
              /\ calculator' = r.calculator
    /\ UNCHANGED <<ref_vars, ui_vars, call>>

\* the session runs on the reference files shipped with the tool
InitFiles ==
    /\ bess_xlsx = SheetStd
    /\ degradation_xlsx = TableStd

Init ==
    /\ InitFiles
    /\ InitUi
    /\ InitCalc
    /\ call = NoCall

Next ==
    \/ SetPower \/ SetCapacity \/ SetCapacityUnit \/ SetAugmentation
    \/ ClickNext \/ SetProduct \/ SetModel \/ SetSolution
    \/ SelectConfigurationA \/ SelectConfigurationB \/ ReloadOptions
    \/ EditAugmentation

Spec == Init /\ [][Next]_vars

\* the calculator page alone
NextCalculator == on_aug_cell_changed

SpecCalculator == Init /\ [][NextCalculator]_vars

\* ------------------------------------------------- engine calls (pure)
CallSoh ==
    /\ call = NoCall
    /\ \E curve \in DegCurves, product \in Products, tie \in Ties :
          call' = [fn |-> "compute_soh_percent", curve |-> curve, product |-> product,
                   soh |-> compute_soh_percent(curve, product, tie)]
    /\ UNCHANGED <<ref_vars, ui_vars, calc_vars>>

CallSchedule ==
    /\ call = NoCall
    /\ \E base \in 0..MaxBase, plan \in Plans :
          call' = [fn |-> "containers_list", base |-> base, plan |-> plan,
                   containers |-> ContainersList(base, plan)]
    /\ UNCHANGED <<ref_vars, ui_vars, calc_vars>>

CallYearly ==
    /\ call = NoCall
    /\ \E product \in {Some(EDGE), Some(GRID5015), None}, model \in {Some(M760), None},
          base \in 1..MaxBase, plan \in {ZeroPlan, PlanOf(7, MaxQty)},
          curve \in {CurveOf(10000, 137, 20), CurveOf(10700, 650, 0)},
          unit \in Units, rate \in Rates, tie \in Ties :
          LET containers == ContainersList(base, plan)
              soh == compute_soh_percent(curve, product, tie)
          IN  call' = [fn |-> "yearly", product |-> product, model |-> model,
                       containers |-> containers, soh |-> soh, unit |-> unit,
                       dod |-> DefaultDod, rate |-> rate,
                       nameplate |-> compute_yearly_dc_nameplate(product, model, containers, unit, bess_xlsx, tie),
                       dc |-> compute_yearly_dc_usable(product, model, containers, soh, unit, DefaultDod, rate, bess_xlsx, tie),
                       ac |-> compute_yearly_ac_usable(product, model, containers, soh, unit, DefaultDod, rate, AcConversion, bess_xlsx, tie)]
    /\ UNCHANGED <<ref_vars, ui_vars, calc_vars>>

\* two spec resolutions on the reference sheet
CallSpecs ==
    /\ call = NoCall
    /\ \E p1 \in SpecProducts, m1 \in SpecModels, p2 \in SpecProducts, m2 \in SpecModels :
          call' = [fn |-> "specs", product |-> <<p1, p2>>, model |-> <<m1, m2>>,
                   result |-> <<get_bess_specs_for(p1, m1, bess_xlsx),
                                get_bess_specs_for(p2, m2, bess_xlsx)>>]
    /\ UNCHANGED <<ref_vars, ui_vars, calc_vars>>

\* a curve selection, and the selection again on the cycle count and
\* P-rate the first one reported
CallCurve ==
    /\ call = NoCall
    /\ \E product \in SizingProducts, cycles_per_year \in CycleQueries,
          discharge_rate \in RateQueries :
       \E first \in {get_degradation_curve(product, cycles_per_year, discharge_rate,
                                            degradation_xlsx)} :
          call' = [fn |-> "curve", product |-> product, cycles_per_year |-> cycles_per_year,
                   discharge_rate |-> discharge_rate, first |-> first,
                   again |-> IF first.ok
                             THEN get_degradation_curve(product, first.matched_cycle * 10,
                                                        first.matched_prate, degradation_xlsx)
                             ELSE first]
    /\ UNCHANGED <<ref_vars, ui_vars, calc_vars>>

\* a sizing call on the reference sheet
CallSizing ==
    /\ call = NoCall
    /\ \E capacity_required_kwh \in Requirements, product \in SizingProducts,
          model \in {Some(M760), None}, solution_type \in SizingSolutions :
          call' = [fn |-> "sizing", capacity_required_kwh |-> capacity_required_kwh,
                   product |-> product, model |-> model, solution_type |-> solution_type,
                   count |-> compute_proposed_bess_count(capacity_required_kwh, product, model,
                                                         None, solution_type, bess_xlsx)]
    /\ UNCHANGED <<ref_vars, ui_vars, calc_vars>>

\* the three yearly series twice: on a schedule and SOH series, and on the
\* same with the entries of one year changed
CallChanged ==
    /\ call = NoCall
    /\ \E base \in 1..MaxBase, plan \in {ZeroPlan, PlanOf(7, MaxQty)}, unit \in Units,
          year \in ChangedYears, entry \in {None, Some(5000)}, tie \in Ties :
       \E containers \in {ContainersList(base, plan)} :
       \E soh \in {compute_soh_percent(CurveOf(10000, 137, -1), Some(EDGE), tie)} :
       \E containers2 \in {[containers EXCEPT ![year + 1] = @ + 1]} :
       \E soh2 \in {[soh EXCEPT ![year + 1] = entry]} :
          call' = [fn |-> "changed", year |-> year,
                   containers |-> containers, soh |-> soh,
                   containers2 |-> containers2, soh2 |-> soh2,
                   series |-> [k \in 1..2 |->
                      [nameplate |-> compute_yearly_dc_nameplate(
                                         Some(EDGE), Some(M760),
                                         IF k = 1 THEN containers ELSE containers2,
                                         unit, bess_xlsx, tie),
                       dc |-> compute_yearly_dc_usable(
                                  Some(EDGE), Some(M760),
                                  IF k = 1 THEN containers ELSE containers2,
                                  IF k = 1 THEN soh ELSE soh2,
                                  unit, DefaultDod, Some(RateHalf), bess_xlsx, tie),
                       ac |-> compute_yearly_ac_usable(
                                  Some(EDGE), Some(M760),
                                  IF k = 1 THEN containers ELSE containers2,
                                  IF k = 1 THEN soh ELSE soh2,
                                  unit, DefaultDod, Some(RateHalf), AcConversion,
                                  bess_xlsx, tie)]]]
    /\ UNCHANGED <<ref_vars, ui_vars, calc_vars>>

\* the rows of the capacity analysis table, on the series of one schedule
CallTable ==
    /\ call = NoCall
    /\ \E solution \in TableSolutions, capacity \in Capacities, base \in 1..MaxBase,
          unit \in Units, tie \in Ties :
       \E d \in {[InitData EXCEPT !.product = EDGE, !.edge_model = M760,
                                  !.edge_solution = solution, !.capacity = capacity,
                                  !.capacity_unit = unit]} :
       \E containers \in {[i \in 1..NumYears |-> base]} :
       \E soh \in {compute_soh_percent(CurveOf(10000, 137, 20), Some(EDGE), tie)} :
       \E nameplate \in {compute_yearly_dc_nameplate(Some(EDGE), Some(M760), containers, unit,
                                                     bess_xlsx, tie)} :
       \E dc \in {compute_yearly_dc_usable(Some(EDGE), Some(M760), containers, soh, unit,
                                           DefaultDod, Some(RateHalf), bess_xlsx, tie)} :
       \E ac \in {compute_yearly_ac_usable(Some(EDGE), Some(M760), containers, soh, unit,
                                           DefaultDod, Some(RateHalf), AcConversion,
                                           bess_xlsx, tie)} :
          call' = [fn |-> "table", solution |-> solution, capacity |-> capacity,
                   soh |-> soh, dc |-> dc, ac |-> ac,
                   rows |-> [i \in 1..NumYears |->
                               TableRow(d, i - 1, containers, Some(soh), Some(nameplate),
                                        Some(dc), Some(ac))]]
    /\ UNCHANGED <<ref_vars, ui_vars, calc_vars>>

\* the first row of the table of a system sized for its requirement: the
\* count of the sizing in every year, on a curve whose year-0 factor is 1
CallSized ==
    /\ call = NoCall
    /\ \E capacity \in SizedCapacities, product \in {EDGE, GRID5015, LowerEdge},
          solution \in SizedSolutions, rate \in Rates, tie \in Ties :
       \E d \in {[InitData EXCEPT !.product = product, !.edge_model = M760,
                                  !.edge_solution = solution,
                                  !.capacity = Some(capacity[1]),
                                  !.capacity_unit = capacity[2]]} :
       \E d1 \in {[d EXCEPT !.capacity_kwh = to_base(d.capacity, d.capacity_unit, "MWh")]} :
       \E count \in {compute_proposed_bess_count(d1.capacity_kwh, Some(product), Some(M760),
                                                 None, Some(solution), bess_xlsx)} :
       \E containers \in {[i \in 1..NumYears |-> count]} :
       \E soh \in {compute_soh_percent(CurveOf(10000, 137, -1), Some(product), tie)} :
       \E dc \in {compute_yearly_dc_usable(Some(product), Some(M760), containers, soh,
                                           d1.capacity_unit, DefaultDod, rate, bess_xlsx, tie)} :
       \E ac \in {compute_yearly_ac_usable(Some(product), Some(M760), containers, soh,
                                           d1.capacity_unit, DefaultDod, rate, AcConversion,
                                           bess_xlsx, tie)} :
          call' = [fn |-> "sized", product |-> product, solution |-> solution,
                   capacity |-> capacity[1], unit |-> capacity[2], rate |-> rate,
                   count |-> count, soh |-> soh, dc |-> dc, ac |-> ac,
                   row |-> TableRow(d1, 0, containers, Some(soh), None, Some(dc), Some(ac))]
    /\ UNCHANGED <<ref_vars, ui_vars, calc_vars>>

\* the system DC usable capacity as the page asks for it, next to the DC
\* usable capacity of a year with as many containers at the calendar SOH
CallSystemDc ==
    /\ call = NoCall
    /\ \E proposed_bess \in 0..MaxBase, energy \in {None, Some(0), Some(760), Some(5015)},
          product \in Products, unit \in Units, rate \in Rates, tie \in Ties :
          call' = [fn |-> "system_dc", proposed_bess |-> proposed_bess, energy |-> energy,
                   product |-> product, unit |-> unit, rate |-> rate,
                   result |-> compute_system_dc_usable_capacity(
                                  proposed_bess, energy, product, unit, DefaultDod,
                                  DefaultDischargeEfficiency, tie),
                   yearly |-> IF IsNone(energy) \/ Val(energy) <= 0 THEN None
                              ELSE Some(DcUsableYear(Val(energy), proposed_bess, DefaultDod,
                                                     discharge_eff(rate),
                                                     calendar_degradation(product), unit, tie))]
    /\ UNCHANGED <<ref_vars, ui_vars, calc_vars>>

\* the PCS count of one configuration at two discharge rates
CallPcs ==
    /\ call = NoCall
    /\ \E product \in PcsProducts, tag \in PcsTags, proposed_bess \in PcsUnits,
          power_kw \in {None, Some(1044)}, rate \in PcsRates,
          other \in {Some(Num(250)), Some(Num(500)), Some(Num(501))} :
          call' = [fn |-> "pcs", product |-> product, option_tag |-> tag,
                   proposed_bess |-> proposed_bess, power_kw |-> power_kw,
                   discharge_rate |-> <<rate, other>>,
                   result |-> <<compute_pcs_count(product, tag, proposed_bess, power_kw, rate),
                                compute_pcs_count(product, tag, proposed_bess, power_kw, other)>>]
    /\ UNCHANGED <<ref_vars, ui_vars, calc_vars>>

\* one rated AC power of a configuration
CallRatedAc ==
    /\ call = NoCall
    /\ \E ac \in AcUsables, rate \in AcRates, pcs \in PcsCounts, tag \in RatedTags, unit \in {"kW", "MW"}, tie \in Ties :
          call' = [fn |-> "rated_ac", ac_usable_kwh |-> ac, discharge_rate |-> rate,
                   pcs_count |-> pcs, option_tag |-> tag, power_unit |-> unit,
                   result |-> compute_system_rated_ac_power(ac, rate, pcs, tag, unit, tie)]
    /\ UNCHANGED <<ref_vars, ui_vars, calc_vars>>

\* one cabinet count of a configuration
CallCabinets ==
    /\ call = NoCall
    /\ \E product \in CabinetProducts, model \in CabinetModels, option_id \in CabinetTags, proposed_bess \in CabinetUnits :
          call' = [fn |-> "cabinets", product |-> product, model |-> model,
                   option_id |-> option_id, proposed_bess |-> proposed_bess,
                   result |-> compute_confluence_cabinet_count(product, model, option_id, proposed_bess)]
    /\ UNCHANGED <<ref_vars, ui_vars, calc_vars>>

\* the call returns: the engine keeps nothing between calls
Return ==
    /\ call # NoCall
    /\ call' = NoCall
    /\ UNCHANGED <<ref_vars, ui_vars, calc_vars>>

InitEngine ==
    /\ InitRef
    /\ InitUi
    /\ InitCalc
    /\ call = NoCall

NextEngine == CallSoh \/ CallSchedule \/ CallYearly \/ CallSpecs \/ CallCurve \/ CallSizing \/ CallChanged \/ CallTable \/ CallCabinets \/ CallRatedAc \/ CallSized \/ CallSystemDc \/ CallPcs \/ Return

SpecEngine == InitEngine /\ [][NextEngine]_vars

\* ------------------------------------------------ properties of the engine
IsSoh == call.fn = "compute_soh_percent"

IsSchedule == call.fn = "containers_list"

IsYearly == call.fn = "yearly"

\* (v - 1/2) * 10000^k <= b <= (v + 1/2) * 10000^k: v is b / 10000^k
\* rounded to the nearest integer
HalfAbove(v, k) == BigTrim([i \in 1..(k - 1) |-> 0] \o <<5000>> \o Big(v))

WithinHalf(b, v, k) ==
    /\ v = 0 \/ BigLeq(HalfAbove(v - 1, k), b)
    /\ BigLeq(b, HalfAbove(v, k))

\* v is N / 10^p rounded to the nearest integer
IsRounded(N, p, v) ==
    LET k == (p + 3) \div 4
    IN  WithinHalf(BigMul(N, Pow10(4 * k - p)), v, k)

\* C1: for every base count and plan the schedule is the base count plus
\* the running sum of the plan: year 0 holds base + plan[0] and every later
\* year adds that year's entry to the year before.
C1_RunningSum ==
    IsSchedule =>
        /\ Len(call.containers) = NumYears
        /\ call.containers[1] = call.base + call.plan[1]
        /\ \A i \in 2..NumYears : call.containers[i] = call.containers[i - 1] + call.plan[i]

C1_Witness ==
    /\ IsSchedule
    /\ call.base > 0
    /\ call.plan[1] > 0
    /\ call.plan[20] > 0
    /\ call.containers[NumYears] = call.base + call.plan[1] + call.plan[20]

\* C4 as stated: the year-0 entry adds no containers, containers[0] is the
\* base count whatever augmentation_plan[0] is.
C4_YearZeroIgnored == IsSchedule => call.containers[1] = call.base

\* C4 as the code has it: the year-0 entry is part of the running sum,
\* containers[0] = base_units + augmentation_plan[0].
C4_YearZeroCounted == IsSchedule => call.containers[1] = call.base + call.plan[1]

C4_Witness ==
    /\ IsSchedule
    /\ call.plan[1] > 0
    /\ call.containers[1] > call.base

\* C6: every SOH entry whose cycling factor is present lies in [0, 1].
C6_SohInRange ==
    IsSoh => \A i \in 1..NumYears :
                ~IsNone(call.curve[i]) =>
                    /\ ~IsNone(call.soh[i])
                    /\ Val(call.soh[i]) >= 0
                    /\ Val(call.soh[i]) <= 10000

\* a cycling factor above 1 was clamped down to SOH 1
C6_Witness ==
    /\ IsSoh
    /\ \E i \in 1..NumYears :
          /\ ~IsNone(call.curve[i])
          /\ Val(call.curve[i]) * calendar_degradation(call.product) > 100000000
          /\ call.soh[i] = Some(10000)

\* the calendar constant the specification names for a product
C7_Constant(product) ==
    IF StripUpper(product) = EDGE THEN 9565
    ELSE IF StripUpper(product) = GRID5015 THEN 9808
    ELSE 10000

\* C7: compute_soh_percent returns 21 entries; an entry is None exactly
\* when its cycling factor is None, and otherwise it is the cycling factor
\* times the product's calendar constant, clamped to [0, 1] and rounded to
\* 4 decimals (within half of 1e-4 of the clamped product).
C7_SohFormula ==
    IsSoh =>
        /\ Len(call.soh) = NumYears
        /\ \A i \in 1..NumYears :
              /\ IsNone(call.soh[i]) <=> IsNone(call.curve[i])
              /\ ~IsNone(call.curve[i]) =>
                    LET x == Val(call.curve[i]) * C7_Constant(call.product)
                        c == IF x < 0 THEN 0 ELSE IF x > 100000000 THEN 100000000 ELSE x
                        d == Val(call.soh[i]) * 10000 - c
                    IN  d <= 5000 /\ d >= -5000

\* an EDGE product written in lower case with blanks, a missing year and a
\* year whose product is rounded
C7_Witness ==
    /\ IsSoh
    /\ call.product = Some(LowerEdge)
    /\ \E i \in 1..NumYears : IsNone(call.soh[i])
    /\ \E i \in 1..NumYears :
          /\ ~IsNone(call.curve[i])
          /\ (Val(call.curve[i]) * 9565) % 10000 # 0
          /\ Val(call.curve[i]) * 9565 < 100000000

\* C8 as stated: a year whose SOH is None has no DC-usable and no AC-usable
\* value.  The engine substitutes SOH 1.0 and returns numbers.
C8_NonePropagates ==
    IsYearly => \A i \in 1..NumYears :
                   IsNone(call.soh[i]) => IsNone(call.dc[i]) /\ IsNone(call.ac[i])

\* C9 as stated: the DC-usable value is exactly the product of the rated
\* energy, the containers, the depth of discharge, the discharge efficiency
\* and the SOH.
C9_ExactProduct ==
    IsYearly => \A i \in 1..NumYears :
                   (~IsNone(call.soh[i]) /\ ~IsNone(call.dc[i])) =>
                       Scale10(Big(Val(call.dc[i])), 7 + UnitShift(call.unit)) =
                           DcProduct(Val(energy_kwh(call.product, call.model, bess_xlsx)),
                                     call.containers[i], call.dod,
                                     discharge_eff(call.rate), Val(call.soh[i]))

\* C9 as the code has it: where the rated energy resolves, the DC-usable
\* value of a year with a known SOH is that product, divided by 1000 when
\* the unit is MWh, rounded to 2 decimals; where it does not resolve every
\* entry is None.
C9_RoundedProduct ==
    IsYearly =>
        LET e == energy_kwh(call.product, call.model, bess_xlsx)
        IN  \A i \in 1..NumYears :
               IF IsNone(e) THEN IsNone(call.dc[i])
               ELSE ~IsNone(call.soh[i]) =>
                       /\ ~IsNone(call.dc[i])
                       /\ IsRounded(DcProduct(Val(e), call.containers[i], call.dod,
                                              IF ~IsNone(call.rate) /\ Val(call.rate) <= 250
                                              THEN 965 ELSE 950,
                                              Val(call.soh[i])),
                                    7 + UnitShift(call.unit), Val(call.dc[i]))

\* a year with a known SOH whose product has more than 2 decimals
C9_Witness ==
    /\ IsYearly
    /\ call.rate = Some(250)
    /\ \E i \in 1..NumYears :
          /\ ~IsNone(call.soh[i])
          /\ ~IsNone(call.dc[i])
          /\ Val(call.dc[i]) > 0
          /\ call.containers[i] > call.containers[1]
          /\ Limb(DcProduct(Val(energy_kwh(call.product, call.model, bess_xlsx)),
                            call.containers[i], call.dod, discharge_eff(call.rate),
                            Val(call.soh[i])), 1) # 0

\* ac * 10000 - dc * 9732, for values in 1e-2
AcGap(ac, dc) == (ac - dc) * 10000 + dc * 268

\* C10 as stated: the AC-usable value is exactly the DC-usable value of
\* the same inputs times 0.9732.
C10_ExactConversion ==
    IsYearly => \A i \in 1..NumYears :
                   (~IsNone(call.dc[i]) /\ ~IsNone(call.ac[i])) =>
                       AcGap(Val(call.ac[i]), Val(call.dc[i])) = 0

\* C10 as the code has it: the AC-usable value is the unrounded product
\* times 0.9732 rounded to 2 decimals, so it differs from the returned
\* DC-usable value times 0.9732 by less than 0.01; it is None exactly when
\* the DC-usable value is.
C10_RoundedConversion ==
    IsYearly => \A i \in 1..NumYears :
                   /\ IsNone(call.ac[i]) <=> IsNone(call.dc[i])
                   /\ ~IsNone(call.ac[i]) =>
                         /\ AcGap(Val(call.ac[i]), Val(call.dc[i])) < 10000
                         /\ AcGap(Val(call.ac[i]), Val(call.dc[i])) > -10000
                         /\ IsRounded(AcProduct(Val(energy_kwh(call.product, call.model, bess_xlsx)),
                                                call.containers[i], call.dod,
                                                discharge_eff(call.rate), 9732,
                                                SohOrOne(call.soh, i - 1)),
                                      11 + UnitShift(call.unit), Val(call.ac[i]))

\* a year whose AC-usable value is not the DC-usable value times 0.9732
C10_Witness ==
    /\ IsYearly
    /\ \E i \in 1..NumYears :
          /\ ~IsNone(call.ac[i])
          /\ Val(call.ac[i]) > 0
          /\ AcGap(Val(call.ac[i]), Val(call.dc[i])) # 0

IsSpecs == call.fn = "specs"

\* C21 as stated: two (product, model) pairs that are equal after removing
\* whitespace and upper-casing resolve to the same spec, or both fail.
C21_NormalizedPairs ==
    IsSpecs =>
        ((/\ _norm(call.product[1]) = _norm(call.product[2])
          /\ _norm(call.model[1]) = _norm(call.model[2]))
         => call.result[1] = call.result[2])

\* the six mapped models
C22_Models == {M760, M676, M591, M507, M422, M338}

\* the header a resolution looks for
C22_Target(product, model) ==
    IF _norm(product) = EDGE THEN EDGE_MODEL_TO_HEADER(Strip(OrEmpty(model)))
    ELSE Some(GRID5015_HEADER)

\* C22: get_bess_specs_for raises, and returns no spec, when the product
\* is neither EDGE nor GRID5015, when the product is EDGE and the model is
\* missing or not one of the six mapped models, and when no header of the
\* sheet equals the target header after normalization; for GRID5015 the
\* model never affects the result.
C22_Raises ==
    IsSpecs =>
        /\ \A k \in 1..2 :
              LET prodN  == _norm(call.product[k])
                  r      == call.result[k]
                  target == C22_Target(call.product[k], call.model[k])
              IN  /\ prodN \notin {EDGE, GRID5015} => ~r.ok
                  /\ (prodN = EDGE /\ (IsNone(call.model[k])
                                       \/ Strip(Val(call.model[k])) \notin C22_Models)) => ~r.ok
                  /\ (~IsNone(target)
                      /\ \A i \in 1..Len(bess_xlsx.columns) :
                            _norm(Some(bess_xlsx.columns[i])) # _norm(target)) => ~r.ok
                  /\ ~r.ok => r.specs = <<>>
        /\ (_norm(call.product[1]) = GRID5015 /\ call.product[2] = call.product[1])
              => call.result[1] = call.result[2]

\* a GRID5015 spec resolved with and without a model, and the failure of
\* an EDGE model written in upper case
C22_Witness ==
    /\ IsSpecs
    /\ _norm(call.product[1]) = GRID5015
    /\ call.product[2] = call.product[1]
    /\ call.model[1] = Some(M760)
    /\ call.model[2] = None
    /\ call.result[1].ok
    /\ call.result[2] = call.result[1]

IsSizing == call.fn = "sizing"

RECURSIVE C23_FirstParsed(_, _, _)
\* the first cell of column col, from row i on, that parses as a number
C23_FirstParsed(sheet, col, i) ==
    IF i > Len(sheet.rows) THEN None
    ELSE IF ~IsNone(CellFloat(sheet.rows[i][col])) THEN CellFloat(sheet.rows[i][col])
    ELSE C23_FirstParsed(sheet, col, i + 1)

\* the resolved spec has none of the accepted spellings of the energy key
C23_NoEnergyKey(product, model) ==
    LET r == get_bess_specs_for(product, model, bess_xlsx)
    IN  r.ok /\ \A i \in 1..Len(EnergyKeys) : EnergyKeys[i] \notin DOMAIN r.specs

\* the first number of the resolved column
C23_Fallback(product, model) ==
    LET target == C22_Target(product, model)
        col    == CHOOSE i \in 1..Len(bess_xlsx.columns) :
                     _norm(Some(bess_xlsx.columns[i])) = _norm(target)
    IN  C23_FirstParsed(bess_xlsx, col, 1)

\* C23 as stated: when the resolved spec has none of the accepted
\* spellings of the energy key, the sizing and the yearly series use the
\* first value of the resolved column that parses as a number: the count
\* covers the requirement with units of that energy, and the nameplate of
\* a year is that energy times the containers of the year.
C23_FirstNumber ==
    /\ (IsSizing /\ C23_NoEnergyKey(call.product, call.model)
                 /\ ~IsNone(call.capacity_required_kwh)
                 /\ Val(call.capacity_required_kwh) > 0)
          => LET e == C23_Fallback(call.product, call.model)
             IN  ~IsNone(e) =>
                    call.count = CeilDiv(Scale10(Big(Val(call.capacity_required_kwh)),
                                                 IF StripUpper(call.solution_type) = AC
                                                 THEN 13 ELSE 9),
                                         UsablePerUnit(Val(e), call.product,
                                                       StripUpper(call.solution_type) = AC), 0)
    /\ (IsYearly /\ C23_NoEnergyKey(call.product, call.model) /\ call.unit = "kWh")
          => LET e == C23_Fallback(call.product, call.model)
             IN  ~IsNone(e) =>
                    \A i \in 1..NumYears :
                       call.nameplate[i] = Some(Val(e) * call.containers[i] * 100)


\* C14: for a spec whose rated energy resolves and a requirement > 0 the
\* count n is the least number of units that covers the requirement:
\* n * usable >= requirement and (n - 1) * usable < requirement, usable
\* being rated energy * 0.95 * 0.95 * the calendar constant, times 0.9732
\* when the solution type is AC.
C14_MinimumCount ==
    IsSizing =>
        LET e    == energy_kwh(call.product, call.model, bess_xlsx)
            req  == call.capacity_required_kwh
            isAC == StripUpper(call.solution_type) = <<"A","C">>
            n    == call.count
        IN  (~IsNone(e) /\ ~IsNone(req) /\ Val(req) > 0) =>
               LET dc     == BigMul(BigMul(BigMul(Big(Val(e)), 95), 950), C7_Constant(call.product))
                   usable == IF isAC THEN BigMul(dc, 9732) ELSE dc
                   need   == Scale10(Big(Val(req)), IF isAC THEN 13 ELSE 9)
               IN  /\ n >= 1
                   /\ BigLeq(need, BigMul(usable, n))
                   /\ ~BigLeq(need, BigMul(usable, n - 1))

\* an AC sizing that needs one unit more than the DC sizing of the same
\* requirement would
C14_Witness ==
    /\ IsSizing
    /\ call.product = Some(EDGE)
    /\ call.model = Some(M760)
    /\ call.capacity_required_kwh = Some(3200)
    /\ call.solution_type = Some(AC)
    /\ bess_xlsx = SheetStd
    /\ call.count = 6

\* C16: for product EDGE, model 760kWh, requirement 3000 kWh and solution
\* DC on a sheet that gives the model its 760 kWh, the sizing result is the
\* same positive integer (5 units) in every call, whatever calls came
\* before it.
C16_SameResult ==
    (/\ IsSizing
     /\ call.product = Some(EDGE)
     /\ call.model = Some(M760)
     /\ call.capacity_required_kwh = Some(3000)
     /\ call.solution_type = Some(DC)
     /\ energy_kwh(Some(EDGE), Some(M760), bess_xlsx) = Some(760))
    => call.count = 5

C16_Witness ==
    /\ IsSizing
    /\ call.product = Some(EDGE)
    /\ call.model = Some(M760)
    /\ call.capacity_required_kwh = Some(3000)
    /\ call.solution_type = Some(DC)
    /\ energy_kwh(Some(EDGE), Some(M760), bess_xlsx) = Some(760)
    /\ call.count > 0

IsChanged == call.fn = "changed"

\* C13: changing containers[j] and soh[j] leaves the nameplate, DC-usable
\* and AC-usable entries of every year r # j unchanged: the entries of
\* year r depend on containers[r], soh[r], the product spec and the
\* constants only.
C13_Frame ==
    IsChanged =>
        \A r \in 0..(NumYears - 1) :
           r # call.year =>
              /\ call.series[1].nameplate[r + 1] = call.series[2].nameplate[r + 1]
              /\ call.series[1].dc[r + 1] = call.series[2].dc[r + 1]
              /\ call.series[1].ac[r + 1] = call.series[2].ac[r + 1]

\* the change of year 7 shows in the three entries of year 7, and the
\* entries of the years around it are numbers
C13_Witness ==
    /\ IsChanged
    /\ call.year = 7
    /\ call.soh2[8] = Some(5000)
    /\ call.series[1].nameplate[8] # call.series[2].nameplate[8]
    /\ call.series[1].dc[8] # call.series[2].dc[8]
    /\ call.series[1].ac[8] # call.series[2].ac[8]
    /\ ~IsNone(call.series[1].dc[9])
    /\ Val(call.series[2].ac[9]) > 0

IsCurve == call.fn = "curve"

\* the rows of the table that have the cell type of the product
RowsOfCell(product) ==
    LET IsCell(r) == r[1] = Some(IF StripUpper(product) = EDGE THEN 300 ELSE 314)
    IN  SelectSeq(degradation_xlsx.rows, IsCell)

\* |a - b|
Dist(a, b) == IF a >= b THEN a - b ELSE b - a

\* v is the value of column col nearest to x among rows, the first seen
\* of the nearest ones
IsNearest(rows, col, v, x) ==
    \E i \in 1..Len(rows) :
       /\ rows[i][col] = Some(v)
       /\ \A j \in 1..Len(rows) :
             ~IsNone(rows[j][col]) =>
                \/ Dist(v, x) < Dist(Val(rows[j][col]), x)
                \/ Dist(v, x) = Dist(Val(rows[j][col]), x) /\ i <= j

\* the rows whose column col holds v
RowsWith(rows, col, v) ==
    LET Holds(r) == r[col] = Some(v)
    IN  SelectSeq(rows, Holds)

\* C17 as stated: the selection picks the tabulated cycle count nearest to
\* cycles_per_year among the rows of the product's cell type (first seen
\* on ties), then the tabulated P-rate nearest to discharge_rate among the
\* rows of that cycle count, and matched_cycle and matched_prate are
\* exactly those two tabulated values.
C17_MatchedValues ==
    (IsCurve /\ call.first.ok) =>
        /\ IsNearest(RowsOfCell(call.product), 2, call.first.matched_cycle * 10,
                     call.cycles_per_year)
        /\ IsNearest(RowsWith(RowsOfCell(call.product), 2, call.first.matched_cycle * 10), 3,
                     call.first.matched_prate, call.discharge_rate)

\* the same selection with matched_cycle the whole part of the tabulated
\* cycle count: this is what the code reports
C17_TruncatedCycle ==
    (IsCurve /\ call.first.ok) =>
        \E c \in {call.first.matched_cycle * 10 + k : k \in 0..9} :
           /\ IsNearest(RowsOfCell(call.product), 2, c, call.cycles_per_year)
           /\ IsNearest(RowsWith(RowsOfCell(call.product), 2, c), 3,
                        call.first.matched_prate, call.discharge_rate)

\* C18 as stated: querying again with the matched_cycle and matched_prate
\* of the first query returns the same 21 cycling factors and 25 calendar
\* factors.
C18_Idempotent ==
    (IsCurve /\ call.first.ok) =>
        /\ call.again.ok
        /\ call.again.deg = call.first.deg
        /\ call.again.cd = call.first.cd

\* C19 as stated: the selection fails if and only if no row of the table
\* has the cell type of the product.
C19_FailsIffNoRow ==
    IsCurve => (~call.first.ok <=> RowsOfCell(call.product) = <<>>)

\* C20: a returned curve has exactly 21 cycling entries and 25 calendar
\* entries; the entry of a year none of whose column names is in the
\* table, and the entry of a calendar year without a column, is None, and
\* so is the entry of an empty cell.
C20_CurveShape ==
    (IsCurve /\ call.first.ok) =>
        LET names == degradation_xlsx.columns
            Has(name) == \E i \in 1..Len(names) : Strip(names[i]) = name
        IN  /\ Len(call.first.deg) = 21
            /\ Len(call.first.cd) = 25
            /\ \A i \in 0..20 :
                  (\A k \in 1..7 : ~Has(PossibleNames(i)[k])) => IsNone(call.first.deg[i + 1])
            /\ \A i \in 0..24 :
                  ~Has(<<"C","D","_">> \o str_of(i)) => IsNone(call.first.cd[i + 1])
            /\ \A r \in 1..Len(degradation_xlsx.rows) :
                  (\A i \in 1..20 : degradation_xlsx.rows[r][3 + i] = call.first.deg[i])
                  => \A i \in 1..20 :
                        IsNone(degradation_xlsx.rows[r][3 + i]) <=> IsNone(call.first.deg[i])

\* a curve from the table without a column for year 20: the entry of year
\* 20 is None, so are the entries of the empty cells of year 3 and CD_3,
\* and the other entries are numbers
C20_Witness ==
    /\ IsCurve
    /\ call.first.ok
    /\ degradation_xlsx = TableFine
    /\ IsNone(call.first.deg[21])
    /\ IsNone(call.first.deg[4])
    /\ IsNone(call.first.cd[4])
    /\ ~IsNone(call.first.deg[1])
    /\ ~IsNone(call.first.cd[25])

IsTable == call.fn = "table"

\* C12: in every row with a valid SOH, a minimum required capacity and a
\* usable value, delta is the AC-usable value of the year minus the minimum
\* required capacity when the solution type is AC, and the DC-usable value
\* minus the minimum required capacity for any other solution type.
C12_Delta ==
    IsTable =>
        LET isAC == Upper(Strip(call.solution)) = <<"A","C">>
        IN  \A i \in 1..NumYears :
               LET used == IF isAC THEN call.ac[i] ELSE call.dc[i]
               IN  (~IsNone(call.soh[i]) /\ ~IsNone(call.capacity) /\ ~IsNone(used)) =>
                      /\ call.rows[i].delta.text = "num"
                      /\ call.rows[i].delta.n = Val(used) - Val(call.capacity) * 100

\* an AC table whose delta differs from the one the DC series would give
C12_Witness ==
    /\ IsTable
    /\ call.solution = <<" ","a","c"," ">>
    /\ ~IsNone(call.capacity)
    /\ call.rows[1].delta.text = "num"
    /\ call.rows[1].delta.n = Val(call.ac[1]) - Val(call.capacity) * 100
    /\ call.rows[1].delta.n # Val(call.dc[1]) - Val(call.capacity) * 100

\* ----------------------------------------------- properties of the session
\* C15 as stated: for a valid product and model and a positive requirement
\* the count the page shows is the count the sizing computes, not the 0 of
\* a failed call.
C15_UiSizing ==
    (/\ ~IsNone(page.proposed_bess)
     /\ data.product \in {EDGE, GRID5015}
     /\ data.edge_model = M760
     /\ TruthyNum(data.capacity_kwh))
    => page.proposed_bess =
          Some(compute_proposed_bess_count(data.capacity_kwh, Some(data.product),
                                           Some(data.edge_model), Some(data.augmentation),
                                           Some(data.edge_solution), bess_xlsx))

ResultsShown == show_pcs_section /\ show_results_section /\ ~IsNone(page.containers_list)

InAugmentationMode == Upper(Strip(data.augmentation)) = AUGMENTATION

\* C2: whenever the stored plan has no negative entry, the schedule on the
\* page never goes down from one year to the next.
C2_NonDecreasing ==
    (/\ ResultsShown
     /\ ~IsNone(data.augmentation_plan)
     /\ \A i \in 1..NumYears : Val(data.augmentation_plan)[i] >= 0)
    => \A r \in 1..(NumYears - 1) :
          Val(page.containers_list)[r] <= Val(page.containers_list)[r + 1]

C2_Witness ==
    /\ ResultsShown
    /\ InAugmentationMode
    /\ Val(data.augmentation_plan)[1] = 2
    /\ Val(data.augmentation_plan)[8] = 2
    /\ Val(page.containers_list)[7] = Val(page.containers_list)[1]
    /\ Val(page.containers_list)[8] = Val(page.containers_list)[1] + 2
    /\ Val(page.containers_list)[NumYears] = Val(page.containers_list)[8]

\* a stored plan: exactly 21 entries, each a non-negative whole number
\* (scale is 1 for integers and 1000 for numbers kept in 1e-3)
IsStoredPlan(plan, scale) ==
    /\ Len(plan) = NumYears
    /\ \A i \in 1..NumYears : plan[i] >= 0 /\ plan[i] % scale = 0

\* C3: after any edits the plan stored by the page and the plan stored by
\* the calculator are sequences of exactly 21 non-negative integers.
C3_PlanStored ==
    /\ ~IsNone(data.augmentation_plan) => IsStoredPlan(Val(data.augmentation_plan), 1)
    /\ ~IsNone(calculator.augmentation_plan)
          => IsStoredPlan(Val(calculator.augmentation_plan), 1000)

\* input_discharge of the results block, from the data a run leaves
InputDischarge ==
    LET rate(c_rate) == IF TruthyNum(c_rate) THEN c_rate ELSE Some(RateHalf)
    IN  rate(calculate_c_rate(data.power_kw, data.capacity_kwh))

\* the three capacity series of the page are those of the schedule of the
\* page, for one way of rounding ties
SeriesOfSchedule(tie) ==
    /\ page.dc_nameplate_list =
          Some(compute_yearly_dc_nameplate(Some(data.product), Some(data.edge_model),
                                           Val(page.containers_list), data.capacity_unit,
                                           bess_xlsx, tie))
    /\ page.dc_usable_list =
          Some(compute_yearly_dc_usable(Some(data.product), Some(data.edge_model),
                                        Val(page.containers_list), Val(page.soh_list),
                                        data.capacity_unit, DefaultDod, InputDischarge,
                                        bess_xlsx, tie))
    /\ page.ac_usable_list =
          Some(compute_yearly_ac_usable(Some(data.product), Some(data.edge_model),
                                        Val(page.containers_list), Val(page.soh_list),
                                        data.capacity_unit, DefaultDod, InputDischarge,
                                        AcConversion, bess_xlsx, tie))

\* C5: once a run has finished, the table is on the page and the nameplate,
\* DC usable and AC usable series are those of the schedule the page shows,
\* which is the current base count plus the current plan.
C5_SeriesFollowSchedule ==
    ResultsShown =>
        /\ page.containers_list =
              Some(IF InAugmentationMode
                   THEN ContainersList(Val(page.proposed_bess), Val(data.augmentation_plan))
                   ELSE [i \in 1..NumYears |-> Val(page.proposed_bess)])
        /\ ~IsNone(page.table)
        /\ ~IsNone(page.soh_list) => \E tie \in Ties : SeriesOfSchedule(tie)

IsCabinets == call.fn = "cabinets"

\* the tag the function reads
C24_Tag == Lower(Strip(OrEmpty(call.option_id)))

\* the count the function divides
C24_Units == IF IsNone(call.proposed_bess) THEN 0 ELSE Val(call.proposed_bess)

\* the five tags the function decides by
C24_Known == {<<"7","6","0","+","d","c">>, <<"7","6","0","+","d","c","+","e","p","c">>, <<"7","6","0","+","a","c">>, <<"7","6","0">>, <<"7","6","0","+","d","y","n","a","p","o","w","e","r">>}

\* C24 as stated: the count depends on the tag and the unit count only,
\* any tag other than 760+dc, 760+dc+epc and 760+ac gives "-" for every
\* model string, and GRID5015 gives None.
C24_TagOnly ==
    IsCabinets =>
        IF Upper(Strip(OrEmpty(call.product))) = GRID5015 THEN call.result = None
        ELSE IF C24_Tag \in {<<"7","6","0","+","d","c">>, <<"7","6","0","+","d","c","+","e","p","c">>} THEN call.result = Some(str_of(Ceil(C24_Units, 5)))
        ELSE IF C24_Tag = <<"7","6","0","+","a","c">> THEN call.result = Some(str_of(Ceil(C24_Units, 3)))
        ELSE call.result = Some(<<"-">>)

\* C24: the count is None for GRID5015, ceil(units/5) for 760+dc and
\* 760+dc+epc, ceil(units/3) for 760+ac and "-" for 760 and
\* 760+dynapower, for every model string; for any other tag it is
\* ceil(units/3) when the lower-cased model contains "ac", else
\* ceil(units/5) when it contains "dc", else "-".
C24_Cabinets ==
    IsCabinets =>
        IF Upper(Strip(OrEmpty(call.product))) = GRID5015 THEN call.result = None
        ELSE IF C24_Tag \in {<<"7","6","0","+","d","c">>, <<"7","6","0","+","d","c","+","e","p","c">>} THEN call.result = Some(str_of(Ceil(C24_Units, 5)))
        ELSE IF C24_Tag = <<"7","6","0","+","a","c">> THEN call.result = Some(str_of(Ceil(C24_Units, 3)))
        ELSE IF C24_Tag \in C24_Known THEN call.result = Some(<<"-">>)
        ELSE IF Contains(<<"a","c">>, Lower(OrEmpty(call.model)))
             THEN call.result = Some(str_of(Ceil(C24_Units, 3)))
        ELSE IF Contains(<<"d","c">>, Lower(OrEmpty(call.model)))
             THEN call.result = Some(str_of(Ceil(C24_Units, 5)))
        ELSE call.result = Some(<<"-">>)

\* seven units under a tag outside the five and a model naming AC
C24_Witness ==
    /\ IsCabinets
    /\ call.product = Some(EDGE)
    /\ C24_Tag \notin C24_Known
    /\ Contains(<<"a","c">>, Lower(OrEmpty(call.model)))
    /\ call.proposed_bess = Some(7)
    /\ call.result = Some(<<"3">>)

\* C25: with an all-zero plan, or when the augmentation mode is not
\* "Augmentation", the schedule on the page is the base unit count in every
\* one of the 21 years, whatever the stored plan is.
C25_BaseSchedule ==
    (/\ ResultsShown
     /\ \/ ~InAugmentationMode
        \/ IsNone(data.augmentation_plan)
        \/ Val(data.augmentation_plan) = ZeroPlan)
    => /\ Len(Val(page.containers_list)) = NumYears
       /\ \A i \in 1..NumYears : Val(page.containers_list)[i] = Val(page.proposed_bess)

\* the mode was left with a plan that adds containers in year 7
C25_Witness ==
    /\ ResultsShown
    /\ ~InAugmentationMode
    /\ ~IsNone(data.augmentation_plan)
    /\ Val(data.augmentation_plan)[8] > 0
    /\ \A i \in 1..NumYears : Val(page.containers_list)[i] = Val(page.proposed_bess)

IsRatedAc == call.fn = "rated_ac"

\* the digits the unit of the result drops from a power in kW
C26_Shift == IF call.power_unit = "MW" THEN 3 ELSE 0

\* the tag is one of the two with a fixed PCS power, with PCS and capacity
C26_Special ==
    /\ Lower(Strip(OrEmpty(call.option_tag))) \in {<<"7","6","0","+","d","y","n","a","p","o","w","e","r">>, <<"7","6","0","+","a","c">>}
    /\ ~IsNone(call.pcs_count) /\ Val(call.pcs_count) > 0
    /\ ~IsNone(call.ac_usable_kwh) /\ Val(call.ac_usable_kwh) > 0

\* AC usable x discharge rate to three decimals of the unit, None when
\* either is missing or not positive
C26_Default ==
    IF \/ IsNone(call.ac_usable_kwh) \/ Val(call.ac_usable_kwh) <= 0
       \/ IsNone(call.discharge_rate) \/ Val(call.discharge_rate) <= 0
    THEN call.result.value = None
    ELSE /\ ~IsNone(call.result.value)
         /\ IsRounded(BigMul(Big(Val(call.ac_usable_kwh)), Val(call.discharge_rate)),
                      3 + C26_Shift, Val(call.result.value))

\* C26: for tags 760+dynapower and 760+ac with pcs_count > 0 and
\* ac_usable > 0 the rated AC power is pcs_count x 125 kW when that does not
\* exceed ac_usable x 0.5, and ac_usable x discharge_rate otherwise; for
\* every other tag it is ac_usable x discharge_rate; the product is None
\* when ac_usable or discharge_rate is missing or not positive. Values are
\* to three decimals of the unit asked, and the unit is returned.
C26_RatedAcPower ==
    IsRatedAc =>
        /\ call.result.unit = (IF ~IsNone(call.result.value) /\ call.power_unit # "MW"
                               THEN "kW" ELSE call.power_unit)
        /\ IF C26_Special /\ Val(call.pcs_count) * 125 * 2000 <= Val(call.ac_usable_kwh)
           THEN /\ ~IsNone(call.result.value)
                /\ Val(call.result.value) * Pow10(C26_Shift) = Val(call.pcs_count) * 125 * 1000
           ELSE C26_Default

\* two PCS on 500 kWh: their 250 kW are the threshold itself
C26_Witness ==
    /\ IsRatedAc
    /\ C26_Special
    /\ call.pcs_count = Some(2)
    /\ call.ac_usable_kwh = Some(500000)
    /\ call.discharge_rate = Some(250)
    /\ call.power_unit = "kW"
    /\ call.result = [value |-> Some(250000), unit |-> "kW"]

\* C27 as stated: whenever the results section is shown a configuration is
\* selected and it is one of the options the page offers for the current
\* product, model, solution type and discharge rate.
C27_SelectionOffered ==
    show_results_section =>
        /\ ~IsNone(data.selected_pcs)
        /\ ~IsNone(data.pcs_options)
        /\ Val(data.pcs_options) =
              pcs_options_of(data, calculate_c_rate(data.power_kw, data.capacity_kwh))
        /\ Len(Val(data.pcs_options)) >
              (IF Val(data.selected_pcs) = "Configuration A" THEN 0 ELSE 1)

IsSized == call.fn = "sized"

\* the year-0 usable capacity of the configured solution type
C28_Usable == IF Upper(Strip(call.solution)) = AC THEN call.ac[1] ELSE call.dc[1]

\* C28: when the rated energy of the unit resolves, the count is the sizing
\* result for the requirement and the year-0 cycling factor is 1, the year-0
\* usable capacity of the configured solution type is at least the
\* requirement: the delta of year 0 is a number and is not negative, at
\* every discharge rate.
C28_Covered ==
    (/\ IsSized
     /\ ~IsNone(energy_kwh(Some(call.product), Some(M760), bess_xlsx))
     /\ call.soh[1] = Some(calendar_degradation(Some(call.product))))
    => /\ ~IsNone(C28_Usable)
       /\ Val(C28_Usable) >= call.capacity * 100
       /\ call.row.delta.text = "num"
       /\ call.row.delta.n >= 0

\* one EDGE unit for 656 kWh at a rate above 0.5: 656.06 kWh, 0.06 to spare
C28_Witness ==
    /\ IsSized
    /\ call.product = EDGE
    /\ call.solution = DC
    /\ call.capacity = 656
    /\ call.unit = "kWh"
    /\ call.rate = Some(600)
    /\ call.count = 1
    /\ call.row.delta = NumCell(6)

IsSystemDc == call.fn = "system_dc"

\* C29 as stated: for the same product, rated energy and unit count n > 0
\* the system DC usable capacity is the DC usable capacity of a year with n
\* containers at the calendar SOH and the rate of the yearly series; the
\* first has three decimals and the second two, so the second is the first
\* to within half a unit of its last digit.
C29_SameAsYearly ==
    (/\ IsSystemDc
     /\ call.proposed_bess > 0
     /\ ~IsNone(call.yearly))
    => /\ ~IsNone(call.result.value)
       /\ Val(call.result.value) - 10 * Val(call.yearly) <= 5
       /\ 10 * Val(call.yearly) - Val(call.result.value) <= 5

IsPcs == call.fn = "pcs"

\* the unit count of the call, 0 for None
C30_Units == IF IsNone(call.proposed_bess) THEN 0 ELSE Val(call.proposed_bess)

\* the count a result text stands for
C30_Count(i) == Val(int_of(call.result[i]))

\* C30 as stated: for GRID5015 and a fixed unit count the PCS count is
\* ceil(n/6) for rates <= 0.125, ceil(n/4) for rates in (0.125, 0.25],
\* ceil(n/2) for rates in (0.25, 0.5] and never fewer than ceil(n/2) for
\* rates above 0.5, so it never goes down when the rate goes up.
C30_NonDecreasing ==
    (IsPcs /\ Upper(Strip(OrEmpty(call.product))) = GRID5015)
    => /\ \A i \in 1..2 :
             LET dr == DrVal(call.discharge_rate[i])
             IN  /\ ~IsNone(int_of(call.result[i]))
                 /\ IF dr <= RateEighth THEN C30_Count(i) = Ceil(C30_Units, 6)
                    ELSE IF dr <= RateQuarter THEN C30_Count(i) = Ceil(C30_Units, 4)
                    ELSE IF dr <= RateHalf THEN C30_Count(i) = Ceil(C30_Units, 2)
                    ELSE C30_Count(i) >= Ceil(C30_Units, 2)
       /\ DrVal(call.discharge_rate[1]) <= DrVal(call.discharge_rate[2])
             => C30_Count(1) <= C30_Count(2)

====
